---------------------------- MODULE Spec2Model ----------------------------
(***************************************************************************)
(* Quantification and linear-fitting engine of layers-edx.                 *)
(*                                                                         *)
(* The module holds one state machine per component:                       *)
(*   SpecFit       LinearFit.get_k_ratios (fitting/linear_fit.py)          *)
(*   SpecInterval  Interval.sortmerge / extract (filter_fit/interval.py)   *)
(*   SpecROI       RegionOfInterest / RegionOfInterestSet (roi.py)         *)
(*   SpecROIMixed  the same over the transitions of two elements           *)
(*   SpecQuant     QuantifyModel.compute over ModelFit                     *)
(*   SpecFilter    FilterFit over BaseSpectrum and FilteredSpectrum        *)
(*   SpecKRatio    KRatioSet add / remove / find (kratio.py)               *)
(*   SpecIntegral  BaseSpectrum.background_corrected_integral              *)
(*   SpecSupport   NonZeroInterval (filter_fit/interval.py)                *)
(*   SpecAssign    QuantifyUsingStandards.assign_reference                 *)
(*   SpecCull      CullByVariance.compute (fitting/culling.py)             *)
(*   SpecTopHat    TopHatFilter._initialize_filter (filter_fit/filter.py)  *)
(*   SpecRefit     ModelFit.get_k_ratios called repeatedly                 *)
(* Every specification leaves the variables of the other components at     *)
(* their idle values.                                                      *)
(***************************************************************************)
EXTENDS Integers, Sequences, FiniteSets, TLC

VARIABLES
    \* ---- LinearFit ----
    parameters,       \* LinearFit._parameters: the element of each Parameter
    culling_strategy, \* LinearFit._culling_strategy: a CullingKinds value
    zero_fit_params,  \* get_k_ratios: boolean mask of clamped/removed parameters
    remove,           \* get_k_ratios: elements flagged by the last culling call
    removed,          \* get_k_ratios: elements removed for good
    kratio,           \* Parameter.kratio of each parameter
    fit_params,       \* get_k_ratios: fit vector of the last solve
    selected,         \* get_k_ratios: indices of the parameters of the last solve
    repeat,           \* get_k_ratios: loop flag
    passes,           \* number of loop passes entered in the current call
    pc,               \* "idle" | "loop" | "ret" | "done" | "raised"
    result,           \* the KRatioSet returned by the call (NoResult before)
    lstsq_memo,       \* solves seen in this call: selected set -> fit vector
    cull_memo,        \* culling results seen in this call: fit vector -> elements
    parameter_ids,    \* the identity of each Parameter object of _parameters
    prior_ids,        \* history: the Parameter objects earlier calls worked on
    \* ---- Interval ----
    iv_input,         \* the list of Interval objects handed to sortmerge
    iv_length,        \* the mask length handed to extract
    iv_list,          \* the list after sortmerge (sorted and merged in place)
    iv_mask,          \* the boolean array returned by extract
    iv_pc,            \* "idle" | "new" | "merged" | "extracted"
    \* ---- RegionOfInterest / RegionOfInterestSet ----
    roi_model,        \* _model of the set and of its ROIs: a LineshapeKinds value
    min_intensity,    \* _min_intensity, on the scale of the weights
    low_extra,        \* _low_extra
    high_extra,       \* _high_extra
    roi,              \* the caller's RegionOfInterest: [low, high, xrts]
    roi_state,        \* "none" | "owned" | "shared" (handed to the set)
    rois,             \* RegionOfInterestSet._rois
    roi_op,           \* the last call and its outcome
    roi_calls,        \* number of calls made so far
    roi_xrts,         \* the transitions of the elements the callers work with
    \* ---- QuantifyModel ----
    q_standards,      \* _standards: element -> the model of its StandardModel
    q_references,     \* _references in dict order: [roi, model] of each entry
    q_scales,         \* _reference_scales: ROI -> scale
    q_unknown,        \* the dict handed to compute
    q_raw,            \* krs_against_refs of the last compute
    q_result,         \* the KRatioSet compute returned
    q_pc,             \* "idle" | "new" | "ctor_raised" | "ready" | "done" | "raised"
    \* ---- FilterFit ----
    f_zero_offset,    \* DetectorCalibration.zero_offset (eV)
    f_width,          \* int(round(width / channel_width)) of the TopHatFilter
    f_unknown,        \* the unknown spectrum: its channels with counts
    f_references,     \* references in dict order: [peaks, roi] of each entry
    f_parameters,     \* _parameters: the FilteredSpectrum of each FilterParameter
    f_result,         \* the k-ratio of each parameter in the returned KRatioSet
    f_pc,             \* "idle" | "new" | "ctor_raised" | "built" | "done" | "raised"
    \* ---- KRatioSet ----
    k_data,           \* KRatioSet._data in dict order: [key, value] of each entry
    k_shadow,         \* history: (element, lines) key -> value of its last add
    k_op,             \* the last call: name, key, outcome, data and keys before it
    k_calls,          \* number of calls made so far
    \* ---- BaseSpectrum.background_corrected_integral ----
    b_zero_offset,    \* zero_offset of the spectrum (eV)
    b_window,         \* first and last channel of the integrated window
    b_peaks,          \* the channels of the window that hold PeakCounts
    b_result,         \* the outcome of the call
    b_pc,             \* "new" | "done" | "raised"
    \* ---- NonZeroInterval ----
    s_data,           \* the array handed to NonZeroInterval
    s_interval,       \* the Interval constructed
    s_pc,             \* "new" | "done" | "raised"
    \* ---- QuantifyUsingStandards.assign_reference ----
    a_standards,      \* _standards in dict order: key element and answers
    a_element,        \* roi.first_element
    a_user,           \* roi in self.user_references
    a_result,         \* the reference returned
    a_pc,             \* "new" | "done"
    \* ---- CullByVariance ----
    c_parameters,     \* the parameters handed to compute: their elements
    c_fit_result,     \* the fit vector handed to compute
    c_significance,   \* CullByVariance._significance
    c_remove,         \* the set compute returned
    c_pc,             \* "new" | "done"
    \* ---- TopHatFilter ----
    t_width,          \* Filter._width, in electronvolts
    t_channel_width,  \* Filter._channel_width, in electronvolts
    t_filter,         \* Filter._filter, every entry times 2m + 1
    t_pc,             \* "new", "built", "raised"; "idle" elsewhere
    \* ---- ModelFit.get_k_ratios called repeatedly ----
    r_kratio,         \* Parameter.kratio of every parameter of the fit
    r_heap,           \* the KRatioSet objects created so far, by content
    r_log             \* the calls made: unknown, returned object, its content

fitVars == <<parameters, culling_strategy, zero_fit_params, remove, removed,
             kratio, fit_params, selected, repeat, passes, pc, result,
             lstsq_memo, cull_memo, parameter_ids, prior_ids>>

ivVars == <<iv_input, iv_length, iv_list, iv_mask, iv_pc>>

roiVars == <<roi_model, min_intensity, low_extra, high_extra, roi, roi_state,
             rois, roi_op, roi_calls, roi_xrts>>

quantVars == <<q_standards, q_references, q_scales, q_unknown, q_raw,
               q_result, q_pc>>

filterVars == <<f_zero_offset, f_width, f_unknown, f_references,
                f_parameters, f_result, f_pc>>

kratioVars == <<k_data, k_shadow, k_op, k_calls>>

integralVars == <<b_zero_offset, b_window, b_peaks, b_result, b_pc>>

supportVars == <<s_data, s_interval, s_pc>>

assignVars == <<a_standards, a_element, a_user, a_result, a_pc>>

cullVars == <<c_parameters, c_fit_result, c_significance, c_remove, c_pc>>

tophatVars == <<t_width, t_channel_width, t_filter, t_pc>>

refitVars == <<r_kratio, r_heap, r_log>>

vars == <<fitVars, ivVars, roiVars, quantVars, filterVars, kratioVars,
          integralVars, supportVars, assignVars, cullVars, tophatVars,
          refitVars>>

nonFitVars == <<ivVars, roiVars, quantVars, filterVars, kratioVars,
                integralVars, supportVars, assignVars, cullVars, tophatVars,
                refitVars>>

nonIvVars == <<fitVars, roiVars, quantVars, filterVars, kratioVars,
               integralVars, supportVars, assignVars, cullVars, tophatVars,
               refitVars>>

nonRoiVars == <<fitVars, ivVars, quantVars, filterVars, kratioVars,
                integralVars, supportVars, assignVars, cullVars, tophatVars,
                refitVars>>

nonQuantVars == <<fitVars, ivVars, roiVars, filterVars, kratioVars,
                  integralVars, supportVars, assignVars, cullVars,
                  tophatVars, refitVars>>

nonFilterVars == <<fitVars, ivVars, roiVars, quantVars, kratioVars,
                   integralVars, supportVars, assignVars, cullVars,
                   tophatVars, refitVars>>

nonKRatioVars == <<fitVars, ivVars, roiVars, quantVars, filterVars,
                   integralVars, supportVars, assignVars, cullVars,
                   tophatVars, refitVars>>

nonIntegralVars == <<fitVars, ivVars, roiVars, quantVars, filterVars,
                     kratioVars, supportVars, assignVars, cullVars,
                     tophatVars, refitVars>>

nonSupportVars == <<fitVars, ivVars, roiVars, quantVars, filterVars,
                    kratioVars, integralVars, assignVars, cullVars,
                    tophatVars, refitVars>>

nonAssignVars == <<fitVars, ivVars, roiVars, quantVars, filterVars,
                   kratioVars, integralVars, supportVars, cullVars,
                   tophatVars, refitVars>>

nonCullVars == <<fitVars, ivVars, roiVars, quantVars, filterVars, kratioVars,
                 integralVars, supportVars, assignVars, tophatVars,
                 refitVars>>

nonTopHatVars == <<fitVars, ivVars, roiVars, quantVars, filterVars,
                   kratioVars, integralVars, supportVars, assignVars,
                   cullVars, refitVars>>

nonRefitVars == <<fitVars, ivVars, roiVars, quantVars, filterVars,
                  kratioVars, integralVars, supportVars, assignVars,
                  cullVars, tophatVars>>

-----------------------------------------------------------------------------
(***************************************************************************)
(* Generic helpers.                                                        *)
(***************************************************************************)
Min2(a, b) == IF a <= b THEN a ELSE b
Max2(a, b) == IF a >= b THEN a ELSE b

\* A function extended (or overwritten) at one point: dict[key] = value.
Put(f, key, value) ==
    [k \in DOMAIN f \cup {key} |-> IF k = key THEN value ELSE f[k]]

EmptyMap == [k \in {} |-> 0]

-----------------------------------------------------------------------------
(***************************************************************************)
(* LinearFit.get_k_ratios.                                                 *)
(*                                                                         *)
(* k-ratios are abstracted to small integers (their sign is what the loop  *)
(* reads).  numpy.linalg.lstsq is a deterministic function of the feature  *)
(* matrix, which depends on the unknown and on the selected parameters     *)
(* only: within one call the solve of a selected set is chosen freely the  *)
(* first time and replayed afterwards (lstsq_memo).  A culling strategy is *)
(* an object handed to the constructor: a stateless one is a pure function *)
(* of (parameters, fit vector), so its answer is chosen freely the first   *)
(* time a fit vector is seen and replayed afterwards (cull_memo); a        *)
(* stateful one may answer every call differently.                         *)
(***************************************************************************)
MaxParams == 2

Elements == {"Si", "Fe"}

KVals == {-1, 0, 1, 2}

NoResult == <<"none">>

\* LinearFit._culling_strategy: None, or a CullingStrategy object that keeps
\* no state between compute calls, or one that does.
CullingKinds == {"none", "stateless", "stateful"}

\* Passes are counted up to this cap only (no call reaches it).
PassCap == MaxParams + Cardinality(Elements) + 2

NumFitParams == Len(parameters)

ParamIdx == 1..NumFitParams

\* linear_fit.py:74-76: a parameter whose element was removed is masked.
MaskRemovedForgetful(zero, rem) ==
    [i \in ParamIdx |-> parameters[i] \in rem]

MaskRemoved(zero, rem) ==
    [i \in ParamIdx |-> zero[i] \/ parameters[i] \in rem]

\* linear_fit.py:77-78: the parameters handed to features_and_targets.
Selected(zero) == {i \in ParamIdx : ~zero[i]}

\* linear_fit.py:79-82: the solve of the selected parameters, zero elsewhere.
\* An empty selection makes features_and_targets / lstsq raise (np.array([])
\* is 1-dimensional in ModelFit, np.vstack([]) raises in FilterFit).
LstSq(sel) ==
    IF sel \in DOMAIN lstsq_memo
    THEN {lstsq_memo[sel]}
    ELSE {[i \in ParamIdx |-> IF i \in sel THEN v[i] ELSE 0] : v \in [sel -> KVals]}

\* linear_fit.py:83-89: negative solved k-ratios are clamped and masked.
ClampedNow(zero, fit) == {i \in ParamIdx : ~zero[i] /\ fit[i] < 0}

AssignKRatios(zero, fit, kr) ==
    [i \in ParamIdx |->
        IF zero[i] THEN kr[i] ELSE IF fit[i] < 0 THEN 0 ELSE fit[i]]

\* LinearFit.elements: the elements present in the parameters.
FitElements == {parameters[i] : i \in ParamIdx}

\* linear_fit.py:90-92: the culling strategy, when one is configured; it
\* returns elements of the parameters it is given (culling.py:20-24).
CullThese(fit) ==
    IF culling_strategy = "none" THEN {{}}
    ELSE IF culling_strategy = "stateless" /\ fit \in DOMAIN cull_memo
         THEN {cull_memo[fit]}
         ELSE SUBSET FitElements

\* linear_fit.py:93-95: k-ratios of flagged or removed elements are zeroed.
ZeroCulled(kr, rem) ==
    [i \in ParamIdx |-> IF parameters[i] \in rem THEN 0 ELSE kr[i]]

\* linear_fit.py:96: another pass is needed.
NeedsRepeatAnyFlag(clamped, rm, rmd) == clamped \/ rm /= {}

NeedsRepeatOnClampOnly(clamped, rm, rmd) == clamped

NeedsRepeat(clamped, rm, rmd) == clamped \/ (rm \ rmd) /= {}

\* linear_fit.py:97-99: the KRatioSet, keyed by each parameter's xrt_set
\* (parameter i of the fit holds the i-th transition set).
BuildResult(kr) == [i \in ParamIdx |-> kr[i]]

FitInit ==
    /\ \E n \in 1..MaxParams : parameters \in [1..n -> Elements]
    /\ culling_strategy \in CullingKinds
    /\ zero_fit_params = [i \in ParamIdx |-> FALSE]
    /\ remove = {}
    /\ removed = {}
    /\ kratio = [i \in ParamIdx |-> 0]
    /\ fit_params = [i \in ParamIdx |-> 0]
    /\ selected = {}
    /\ repeat = FALSE
    /\ passes = 0
    /\ pc = "idle"
    /\ result = NoResult
    /\ lstsq_memo = EmptyMap
    /\ cull_memo = EmptyMap
    /\ parameter_ids = [i \in ParamIdx |-> i]
    /\ prior_ids = {}

\* linear_fit.py:64-68: a call of get_k_ratios with a fresh unknown; it works
\* on self.parameters, the list _assign_parameters built in __init__.
Call ==
    /\ pc \in {"idle", "done", "raised"}
    /\ zero_fit_params' = [i \in ParamIdx |-> FALSE]
    /\ remove' = {}
    /\ removed' = {}
    /\ kratio' = [i \in ParamIdx |-> 0]
    /\ fit_params' = [i \in ParamIdx |-> 0]
    /\ selected' = {}
    /\ repeat' = TRUE
    /\ passes' = 0
    /\ pc' = "loop"
    /\ result' = NoResult
    /\ lstsq_memo' = EmptyMap
    /\ cull_memo' = EmptyMap
    /\ prior_ids' = IF pc = "idle" THEN prior_ids
                    ELSE prior_ids \cup {parameter_ids[i] : i \in ParamIdx}
    /\ UNCHANGED <<parameters, culling_strategy, parameter_ids>>
    /\ UNCHANGED nonFitVars

\* linear_fit.py:69-80: a pass whose selection is empty raises in
\* features_and_targets / lstsq; the exception leaves get_k_ratios.
PassRaise ==
    /\ pc = "loop"
    /\ passes < PassCap
    /\ LET removed1 == removed \cup remove
           zero1 == MaskRemoved(zero_fit_params, removed1)
       IN /\ Selected(zero1) = {}
          /\ removed' = removed1
          /\ remove' = {}
          /\ zero_fit_params' = zero1
          /\ selected' = {}
          /\ repeat' = FALSE
          /\ passes' = passes + 1
          /\ pc' = "raised"
    /\ UNCHANGED <<parameters, culling_strategy, kratio, fit_params, result,
                   lstsq_memo, cull_memo, parameter_ids, prior_ids>>
    /\ UNCHANGED nonFitVars

\* linear_fit.py:69-96: one full pass of the solve loop.
PassSolve ==
    /\ pc = "loop"
    /\ passes < PassCap
    /\ LET removed1 == removed \cup remove
           zero1 == MaskRemoved(zero_fit_params, removed1)
           sel == Selected(zero1)
       IN /\ sel /= {}
          /\ \E fit \in LstSq(sel) : \E cull \in CullThese(fit) :
               LET clampedNow == ClampedNow(zero1, fit)
                   zero2 == [i \in ParamIdx |-> zero1[i] \/ i \in clampedNow]
                   kr1 == AssignKRatios(zero1, fit, kratio)
                   kr2 == ZeroCulled(kr1, cull \cup removed1)
                   rep == NeedsRepeat(clampedNow /= {}, cull, removed1)
               IN /\ removed' = removed1
                  /\ remove' = cull
                  /\ zero_fit_params' = zero2
                  /\ selected' = sel
                  /\ fit_params' = fit
                  /\ kratio' = kr2
                  /\ repeat' = rep
                  /\ passes' = passes + 1
                  /\ pc' = IF rep THEN "loop" ELSE "ret"
                  /\ lstsq_memo' = Put(lstsq_memo, sel, fit)
                  /\ cull_memo' = IF culling_strategy = "stateless"
                                  THEN Put(cull_memo, fit, cull)
                                  ELSE cull_memo
    /\ UNCHANGED <<parameters, culling_strategy, result, parameter_ids,
                   prior_ids>>
    /\ UNCHANGED nonFitVars

\* linear_fit.py:97-100: build and return the KRatioSet.
Return ==
    /\ pc = "ret"
    /\ result' = BuildResult(kratio)
    /\ pc' = "done"
    /\ UNCHANGED <<parameters, culling_strategy, zero_fit_params, remove,
                   removed, kratio, fit_params, selected, repeat, passes,
                   lstsq_memo, cull_memo, parameter_ids, prior_ids>>
    /\ UNCHANGED nonFitVars

FitNext == Call \/ PassRaise \/ PassSolve \/ Return

\* No LinearFit exists.
FitIdle ==
    /\ parameters = <<>>
    /\ culling_strategy = "none"
    /\ zero_fit_params = <<>>
    /\ remove = {}
    /\ removed = {}
    /\ kratio = <<>>
    /\ fit_params = <<>>
    /\ selected = {}
    /\ repeat = FALSE
    /\ passes = 0
    /\ pc = "none"
    /\ result = NoResult
    /\ lstsq_memo = EmptyMap
    /\ cull_memo = EmptyMap
    /\ parameter_ids = <<>>
    /\ prior_ids = {}

-----------------------------------------------------------------------------
(***************************************************************************)
(* Interval (fitting/filter_fit/interval.py).  An Interval is a record     *)
(* [lower, upper]; a boolean array of length n is a function on 0..n-1.    *)
(***************************************************************************)
MaxBound == 3

MaxIntervals == 2

\* Bounds an Interval is constructed with; the constructor checks nothing.
IntervalBounds == (0 - 1)..MaxBound

Interval(lower, upper) == [lower |-> lower, upper |-> upper]

\* interval.py:9-12
Merge(interval1, interval2) ==
    Interval(Min2(interval1.lower, interval2.lower),
             Max2(interval1.upper, interval2.upper))

\* interval.py:14-17
OverlapsStrict(interval1, interval2) ==
    interval1.lower < interval2.upper /\ interval2.lower < interval1.upper

Overlaps(interval1, interval2) ==
    interval1.lower <= interval2.upper /\ interval2.lower <= interval1.upper

\* interval.py:22: list.sort(key=lower) is stable: x goes behind every
\* element whose lower is not greater.
RECURSIVE InsertByLower(_, _)
InsertByLower(sorted, x) ==
    IF sorted = <<>> THEN <<x>>
    ELSE IF sorted[Len(sorted)].lower <= x.lower
         THEN Append(sorted, x)
         ELSE Append(InsertByLower(SubSeq(sorted, 1, Len(sorted) - 1), x),
                     sorted[Len(sorted)])

RECURSIVE SortByLower(_)
SortByLower(list) ==
    IF list = <<>> THEN <<>>
    ELSE InsertByLower(SortByLower(SubSeq(list, 1, Len(list) - 1)),
                       list[Len(list)])

\* interval.py:23-30: the merge scan from (0-based) index i.
RECURSIVE MergeScan(_, _)
MergeScan(list, i) ==
    IF ~(i < Len(list) - 1) THEN list
    ELSE IF Overlaps(list[i + 1], list[i + 2])
         THEN MergeScan(SubSeq(list, 1, i)
                          \o <<Merge(list[i + 1], list[i + 2])>>
                          \o SubSeq(list, i + 3, Len(list)),
                        0)
         ELSE MergeScan(list, i + 1)

\* interval.py:19-31
SortMerge(list) == MergeScan(SortByLower(list), 0)

\* A slice bound of a numpy array of the given length: negative bounds count
\* from the end, and every bound is clipped to 0..length.
SliceBound(b, length) ==
    IF b < 0 THEN Max2(length + b, 0) ELSE Min2(b, length)

\* interval.py:33-39: bool_arr[lower:upper] = True for every interval.
Extract(length, list) ==
    [c \in 0..(length - 1) |->
        \E k \in 1..Len(list) :
            /\ SliceBound(list[k].lower, length) <= c
            /\ c < SliceBound(list[k].upper, length)]

\* The orders a list can be handed over in.
Orderings(list) ==
    {[k \in 1..Len(list) |-> list[f[k]]] :
        f \in {g \in [1..Len(list) -> 1..Len(list)] :
                  \A a, b \in 1..Len(list) : g[a] = g[b] => a = b}}

IntervalLists ==
    UNION {[1..n -> {Interval(l, u) : l \in IntervalBounds, u \in IntervalBounds}] :
             n \in 0..MaxIntervals}

IvInit ==
    /\ iv_input \in IntervalLists
    /\ iv_length \in {MaxBound - 1, MaxBound}
    /\ iv_list = <<>>
    /\ iv_mask = <<>>
    /\ iv_pc = "new"

\* Interval.sortmerge on the list, in any order of its elements.
IvSortMerge ==
    /\ iv_pc = "new"
    /\ \E p \in Orderings(iv_input) : iv_list' = SortMerge(p)
    /\ iv_pc' = "merged"
    /\ UNCHANGED <<iv_input, iv_length, iv_mask>>
    /\ UNCHANGED nonIvVars

\* Interval.extract on the merged list.
IvExtract ==
    /\ iv_pc = "merged"
    /\ iv_mask' = Extract(iv_length, iv_list)
    /\ iv_pc' = "extracted"
    /\ UNCHANGED <<iv_input, iv_length, iv_list>>
    /\ UNCHANGED nonIvVars

IvNext == IvSortMerge \/ IvExtract

\* No Interval list is being processed.
IvIdle ==
    /\ iv_input = <<>>
    /\ iv_length = 0
    /\ iv_list = <<>>
    /\ iv_mask = <<>>
    /\ iv_pc = "idle"

-----------------------------------------------------------------------------
(***************************************************************************)
(* RegionOfInterest and RegionOfInterestSet (roi.py).  Energies are        *)
(* integers on a grid of one electronvolt expressed in joule, so that      *)
(* ToSI.ev(w) of a width of w eV is w grid steps.  A transition is a       *)
(* record [energy, weight, element, line], its weight being the            *)
(* family-normalised weight times two.  A RegionOfInterest is a record     *)
(* [low, high, xrts]; xrts and RegionOfInterestSet._rois are Python sets,  *)
(* whose members are told apart by __eq__.                                 *)
(***************************************************************************)
MaxRoiCalls == 3

\* Transition energies, in grid steps.
Energies == {1, 2}
MinIntensities == {0, 1}
Extras == {0, 1}
\* Widths a line-shape model answers, in grid steps.
Widths == {0, 1}
XrtSetSizes == {1, 2}

\* "none": no line-shape model; "fano": FanoSiLiLineshape; "custom": any
\* other LineshapeModel subclass with non-negative widths.
LineshapeKinds == {"none", "fano", "custom"}

\* float("inf"): larger than every finite energy of the model.
SetMax(S) == CHOOSE x \in S : \A y \in S : y <= x

Infinity == SetMax(Energies) + SetMax(Widths) + SetMax(Extras) + 1

\* The transitions of one element: a full-weight line at every energy
\* (LA1 and KA1) and one weak line (LB1).
XRayTransitions ==
    {[energy |-> e, weight |-> 2, element |-> "Si",
      line |-> IF e = 1 THEN "LA1" ELSE "KA1"] : e \in Energies}
        \cup {[energy |-> 1, weight |-> 1, element |-> "Si", line |-> "LB1"]}

\* The transitions of two elements: the lines at energy 1 of silicon and
\* the LA1 line of a heavier element at energy 2.
MixedTransitions ==
    {xrt \in XRayTransitions : xrt.energy = 1}
        \cup {[energy |-> 2, weight |-> 2, element |-> "Fe", line |-> "LA1"]}

\* XRayTransitionSet objects: transitions of one element.
XRayTransitionSets ==
    {s \in SUBSET roi_xrts :
        /\ Cardinality(s) \in XrtSetSizes
        /\ \A a, b \in s : a.element = b.element}

\* XRayTransition.__eq__ (and __hash__): transition, source shell and
\* destination shell, none of which depends on the element.
XRayTransitionEq(a, b) == a.line = b.line

\* set.add on a set of transitions: an equal member stays in place.
XrtsAdd(xrts, xrt) ==
    IF \E x \in xrts : XRayTransitionEq(x, xrt) THEN xrts ELSE xrts \cup {xrt}

\* a.union(b) on sets of transitions: the members of a, and the members
\* of b that equal none of them.
XrtsUnion(a, b) ==
    a \cup {y \in b : \A x \in a : ~XRayTransitionEq(x, y)}

\* RegionOfInterest.__eq__: low_energy, high_energy and xrts.
RegionOfInterestEq(a, b) ==
    /\ a.low = b.low
    /\ a.high = b.high
    /\ {x.line : x \in a.xrts} = {x.line : x \in b.xrts}

\* RegionOfInterest.__init__ before its add_xrt call.
EmptyROI == [low |-> Infinity, high |-> 0 - Infinity, xrts |-> {}]

\* add_xrt keeps the transition unless weight <= min_intensity.
Accepts(xrt) == ~(xrt.weight <= min_intensity)

\* FanoSiLiLineshape.left_width takes math.log(min_intensity / weight), which
\* raises ValueError for a min_intensity of 0.
WidthRaises == roi_model = "fano" /\ min_intensity = 0

\* Windows with the widths added below and subtracted above (mutation).
WindowsSignSlip(xrt) ==
    IF roi_model = "none"
    THEN {[low |-> xrt.energy, high |-> xrt.energy]}
    ELSE {[low  |-> xrt.energy + (w[1] + low_extra),
           high |-> xrt.energy - (w[2] + high_extra)] :
            w \in {v \in Widths \X Widths :
                      roi_model = "fano" => v[1] = v[2]}}

\* The windows [low, high] add_xrt can compute for a transition.
Windows(xrt) ==
    IF roi_model = "none"
    THEN {[low |-> xrt.energy, high |-> xrt.energy]}
    ELSE {[low  |-> xrt.energy - (w[1] + low_extra),
           high |-> xrt.energy + (w[2] + high_extra)] :
            w \in {v \in Widths \X Widths :
                      roi_model = "fano" => v[1] = v[2]}}

\* add_xrt with low and high assigned whatever the current bounds (mutation).
AddXrtOverwrite(r, xrt, win) ==
    [low |-> win.low, high |-> win.high, xrts |-> XrtsAdd(r.xrts, xrt)]

\* RegionOfInterest.add_xrt for an accepted transition.
AddXrt(r, xrt, win) ==
    [low  |-> IF win.low < r.low THEN win.low ELSE r.low,
     high |-> IF win.high > r.high THEN win.high ELSE r.high,
     xrts |-> XrtsAdd(r.xrts, xrt)]

\* RegionOfInterest.add_roi
AddRoi(r, other) ==
    [low  |-> Min2(r.low, other.low),
     high |-> Max2(r.high, other.high),
     xrts |-> XrtsUnion(r.xrts, other.xrts)]

Contains(r, energy) == r.low <= energy /\ energy <= r.high

\* intersects with the test made in both directions (mutation).
IntersectsEitherWay(r, other) ==
    \/ Contains(r, other.low) \/ Contains(r, other.high)
    \/ Contains(other, r.low) \/ Contains(other, r.high)

Intersects(r, other) == Contains(r, other.low) \/ Contains(r, other.high)

FullyContains(r, other) == Contains(r, other.low) /\ Contains(r, other.high)

\* The orders in which a Python set can be iterated.
IterationOrders(S) ==
    {s \in [1..Cardinality(S) -> S] :
        \A i, j \in 1..Cardinality(S) : i /= j => s[i] /= s[j]}

\* The loop of RegionOfInterestSet.add_roi over self.rois, from position i.
RECURSIVE AbsorbLoop(_, _, _, _)
AbsorbLoop(order, i, new_roi, matches) ==
    IF i > Len(order)
    THEN [new_roi |-> new_roi, matches |-> matches]
    ELSE IF Intersects(order[i], new_roi)
         THEN AbsorbLoop(order, i + 1, AddRoi(new_roi, order[i]),
                         matches \cup {order[i]})
         ELSE AbsorbLoop(order, i + 1, new_roi, matches)

\* RegionOfInterestSet.add_roi: the new set and the widened new_roi.
SetAddRoi(set, new_roi, order) ==
    LET r == AbsorbLoop(order, 1, new_roi, {})
        rest == set \ r.matches
    IN  [rois |-> IF \E o \in rest : RegionOfInterestEq(o, r.new_roi)
                  THEN rest
                  ELSE rest \cup {r.new_roi},
         new_roi |-> r.new_roi]

\* RegionOfInterestSet.add_xrt: the sets it can leave behind.
SetAddXrt(set, xrt) ==
    IF ~Accepts(xrt)
    THEN {set}
    ELSE {SetAddRoi(set, AddXrt(EmptyROI, xrt, win), order).rois :
            win \in Windows(xrt), order \in IterationOrders(set)}

\* RegionOfInterestSet.add_xrt_set over the transitions in iteration order.
RECURSIVE SetAddXrtSet(_, _)
SetAddXrtSet(set, xs) ==
    IF xs = <<>>
    THEN {set}
    ELSE UNION {SetAddXrtSet(s, Tail(xs)) : s \in SetAddXrt(set, Head(xs))}

RoiInit ==
    /\ roi_model \in LineshapeKinds
    /\ min_intensity \in MinIntensities
    /\ low_extra \in Extras
    /\ high_extra \in Extras
    /\ roi = EmptyROI
    /\ roi_state = "none"
    /\ rois = {}
    /\ roi_op = "new"
    /\ roi_calls = 0
    /\ roi_xrts = XRayTransitions

\* The same, the callers working with the transitions of two elements.
RoiMixedInit ==
    /\ roi_model \in LineshapeKinds
    /\ min_intensity \in MinIntensities
    /\ low_extra \in Extras
    /\ high_extra \in Extras
    /\ roi = EmptyROI
    /\ roi_state = "none"
    /\ rois = {}
    /\ roi_op = "new"
    /\ roi_calls = 0
    /\ roi_xrts = MixedTransitions

\* RegionOfInterest(xrt, model, min_intensity, low_extra, high_extra)
RoiNew ==
    /\ roi_calls < MaxRoiCalls
    /\ \E xrt \in roi_xrts :
        IF ~Accepts(xrt)
        THEN roi' = EmptyROI /\ roi_state' = "owned" /\ roi_op' = "init"
        ELSE IF WidthRaises
             THEN UNCHANGED <<roi, roi_state>> /\ roi_op' = "raised"
             ELSE /\ \E win \in Windows(xrt) : roi' = AddXrt(EmptyROI, xrt, win)
                  /\ roi_state' = "owned"
                  /\ roi_op' = "init"
    /\ roi_calls' = roi_calls + 1
    /\ UNCHANGED <<roi_model, min_intensity, low_extra, high_extra, rois>>
    /\ UNCHANGED <<roi_xrts, nonRoiVars>>

\* roi.add_xrt(xrt)
RoiAddXrt ==
    /\ roi_state = "owned"
    /\ roi_calls < MaxRoiCalls
    /\ \E xrt \in roi_xrts :
        IF ~Accepts(xrt)
        THEN UNCHANGED roi /\ roi_op' = "add_xrt"
        ELSE IF WidthRaises
             THEN UNCHANGED roi /\ roi_op' = "raised"
             ELSE /\ \E win \in Windows(xrt) : roi' = AddXrt(roi, xrt, win)
                  /\ roi_op' = "add_xrt"
    /\ roi_calls' = roi_calls + 1
    /\ UNCHANGED <<roi_model, min_intensity, low_extra, high_extra, roi_state,
                   rois>>
    /\ UNCHANGED <<roi_xrts, nonRoiVars>>

\* roi.add_roi(other), other being a RegionOfInterest held by the set
RoiAddRoi ==
    /\ roi_state = "owned"
    /\ roi_calls < MaxRoiCalls
    /\ \E other \in rois : roi' = AddRoi(roi, other)
    /\ roi_op' = "add_roi"
    /\ roi_calls' = roi_calls + 1
    /\ UNCHANGED <<roi_model, min_intensity, low_extra, high_extra, roi_state,
                   rois>>
    /\ UNCHANGED <<roi_xrts, nonRoiVars>>

\* roi_set.add_roi(roi): roi is widened in place and becomes a member.
RoiSetAddRoi ==
    /\ roi_state = "owned"
    /\ roi_calls < MaxRoiCalls
    /\ \E order \in IterationOrders(rois) :
        LET r == SetAddRoi(rois, roi, order)
        IN  rois' = r.rois /\ roi' = r.new_roi
    /\ roi_state' = "shared"
    /\ roi_op' = "set_add_roi"
    /\ roi_calls' = roi_calls + 1
    /\ UNCHANGED <<roi_model, min_intensity, low_extra, high_extra>>
    /\ UNCHANGED <<roi_xrts, nonRoiVars>>

\* roi_set.add_xrt(xrt)
RoiSetAddXrt ==
    /\ roi_calls < MaxRoiCalls
    /\ \E xrt \in roi_xrts :
        IF Accepts(xrt) /\ WidthRaises
        THEN UNCHANGED rois /\ roi_op' = "raised"
        ELSE rois' \in SetAddXrt(rois, xrt) /\ roi_op' = "set_add_xrt"
    /\ roi_calls' = roi_calls + 1
    /\ UNCHANGED <<roi_model, min_intensity, low_extra, high_extra, roi,
                   roi_state>>
    /\ UNCHANGED <<roi_xrts, nonRoiVars>>

\* roi_set.add_xrt_set(xrt_set)
RoiSetAddXrtSet ==
    /\ roi_calls < MaxRoiCalls
    /\ \E xrt_set \in XRayTransitionSets :
        IF WidthRaises /\ \E xrt \in xrt_set : Accepts(xrt)
        THEN UNCHANGED rois /\ roi_op' = "raised"
        ELSE /\ \E xs \in IterationOrders(xrt_set) :
                    rois' \in SetAddXrtSet(rois, xs)
             /\ roi_op' = "set_add_xrt_set"
    /\ roi_calls' = roi_calls + 1
    /\ UNCHANGED <<roi_model, min_intensity, low_extra, high_extra, roi,
                   roi_state>>
    /\ UNCHANGED <<roi_xrts, nonRoiVars>>

RoiNext ==
    \/ RoiNew \/ RoiAddXrt \/ RoiAddRoi
    \/ RoiSetAddRoi \/ RoiSetAddXrt \/ RoiSetAddXrtSet

\* No RegionOfInterest and no RegionOfInterestSet exist.
RoiIdle ==
    /\ roi_model = "none"
    /\ min_intensity = 0
    /\ low_extra = 0
    /\ high_extra = 0
    /\ roi = EmptyROI
    /\ roi_state = "none"
    /\ rois = {}
    /\ roi_op = "idle"
    /\ roi_calls = 0
    /\ roi_xrts = {}

-----------------------------------------------------------------------------
(***************************************************************************)
(* QuantifyModel (quantification/quantify_model/quantify_model.py) over     *)
(* QuantifyUsingStandards and ModelFit.  A model or an unknown is a dict   *)
(* from transitions to intensities, iterated in the order of               *)
(* TransitionOrder.  StandardModel builds its ROIs without a line-shape    *)
(* model, so every ROI is the point window of one transition and is named  *)
(* by that transition; its transition set is the one-element set.          *)
(* K-ratios are exact fractions [num, den].                                *)
(***************************************************************************)
Ratio(n, d) == [num |-> n, den |-> d]

\* Python's None where a k-ratio is expected.
None == Ratio(0, 0)

RatEq(a, b) == a.num * b.den = b.num * a.den

RatNegative(a) == a.num < 0

RatAdd(a, b) == Ratio(a.num * b.den + b.num * a.den, a.den * b.den)

RECURSIVE RatSum(_)
RatSum(s) == IF s = <<>> THEN Ratio(0, 1) ELSE RatAdd(Head(s), RatSum(Tail(s)))

MeasurableElements == {"Si", "Fe"}

\* The transitions of the dicts.  XRayTransition.__eq__ and __hash__ look at
\* the line and not at the element, so the keys of one dict, and of the
\* KRatioSets built from them, are lines of different names.
TransitionOrder == <<"Si KA1", "Si KB1", "Fe LA1">>

Transitions == {TransitionOrder[i] : i \in DOMAIN TransitionOrder}

\* XRayTransition.element
ElementOf(xrt) == IF xrt = "Fe LA1" THEN "Fe" ELSE "Si"

Intensities == {1, 2}

UnknownValues == {0 - 1, 1}

\* The dicts a StandardModel can be given.
Models ==
    UNION {[keys -> Intensities] : keys \in (SUBSET Transitions) \ {{}}}

\* The dicts compute can be given besides the standards' own models.
Unknowns ==
    UNION {[keys -> UnknownValues] : keys \in (SUBSET Transitions) \ {{}}}

\* The keys of a dict in iteration order.
DictKeys(d) == SelectSeq(TransitionOrder, LAMBDA xrt : xrt \in DOMAIN d)

\* StandardModel.create_element_roi_set: one point ROI for every transition
\* of the element that has data in the model.
StandardRois(element) ==
    {xrt \in DOMAIN q_standards[element] : ElementOf(xrt) = element}

\* StandardMaterial.roi_set: the ROIs of the standard's own element.
RoiSet(std) == StandardRois(std)

MeasuredElements == DOMAIN q_standards

AllStandardRois == UNION {RoiSet(el) : el \in MeasuredElements}

\* StandardMaterial.composition.elements: the standard's element and the
\* elements its model has data for.
CompositionElements(std) ==
    {std} \cup {ElementOf(xrt) : xrt \in DOMAIN q_standards[std]}

\* QuantifyUsingStandards.assign_reference without user references: the
\* standards whose model can become the reference of roi, {} for None.
AssignReference(region, suitable) ==
    IF <<ElementOf(region), region>> \in suitable
    THEN {ElementOf(region)}
    ELSE {std \in MeasuredElements :
            /\ ElementOf(region) \in CompositionElements(std)
            /\ <<std, region>> \in suitable}

\* The orders in which _assign_references can insert the ROIs: standard by
\* standard, the ROIs of one standard in any order.
ReferenceOrders(regions) ==
    {s \in IterationOrders(regions) :
        \A i, j, k \in 1..Len(s) :
            (i < j /\ j < k /\ ElementOf(s[i]) = ElementOf(s[k]))
                => ElementOf(s[j]) = ElementOf(s[i])}

\* ModelFit._assign_parameters: the intensities of parameter i.
ParamIntensities(i) ==
    LET ref == q_references[i]
    IN  [xrt \in {x \in DOMAIN ref.model : x = ref.roi} |-> ref.model[xrt]]

\* ModelFit.features_and_targets: one row per selected parameter, one
\* column per transition of the unknown.
Features(unknown, sel) ==
    [i \in 1..Len(sel) |->
        [j \in 1..Len(DictKeys(unknown)) |->
            LET xrt == DictKeys(unknown)[j]
                p == ParamIntensities(sel[i])
            IN  IF xrt \in DOMAIN p THEN p[xrt] ELSE 0]]

Targets(unknown) ==
    [j \in 1..Len(DictKeys(unknown)) |-> unknown[DictKeys(unknown)[j]]]

\* np.linalg.lstsq raises LinAlgError for a 1-dimensional features array (no
\* selected parameter) and when features and targets differ in their rows.
LstSqRaises(features, targets) ==
    Len(features) = 0 \/ Len(features) /= Len(targets)

\* np.linalg.lstsq for a matrix with at most one non-zero entry per row and
\* per column: the minimum-norm least-squares solution, one value per column.
LstSqSolve(features, targets) ==
    [j \in 1..Len(features[1]) |->
        IF \E i \in 1..Len(features) : features[i][j] /= 0
        THEN LET i == CHOOSE r \in 1..Len(features) : features[r][j] /= 0
             IN  Ratio(targets[i], features[i][j])
        ELSE Ratio(0, 1)]

QParamIdx == 1..Len(q_references)

\* Parameter.element of parameter i
ParamElement(i) == ElementOf(q_references[i].roi)

\* CullByVariance(0.0).compute: an element is flagged when the mean of its
\* fit values is below significance * np.var(mean) = 0.
CullByVariance(fit) ==
    {el \in {ParamElement(i) : i \in QParamIdx} :
        RatNegative(RatSum([i \in QParamIdx |->
            IF ParamElement(i) = el THEN fit[i] ELSE Ratio(0, 1)]))}

\* The selected parameters, in parameter order, as a sequence of indices.
RECURSIVE SelectedFrom(_, _)
SelectedFrom(zero, i) ==
    IF i > Len(q_references) THEN <<>>
    ELSE IF zero[i] THEN SelectedFrom(zero, i + 1)
         ELSE <<i>> \o SelectedFrom(zero, i + 1)

\* fit_params[~zero_fit_params] = fit[0].flatten()
Scatter(sel, solution) ==
    [i \in QParamIdx |->
        IF \E n \in 1..Len(sel) : sel[n] = i
        THEN solution[CHOOSE n \in 1..Len(sel) : sel[n] = i]
        ELSE Ratio(0, 1)]

\* LinearFit.get_k_ratios of ModelFit from the head of one loop pass on:
\* whether it raised, and the k-ratio of every parameter if it did not.
RECURSIVE GetKRatios(_, _, _, _)
GetKRatios(unknown, zero, rmd, rm) ==
    LET removed1 == rmd \cup rm
        zero1 == [i \in QParamIdx |-> zero[i] \/ ParamElement(i) \in removed1]
        sel == SelectedFrom(zero1, 1)
        features == Features(unknown, sel)
        targets == Targets(unknown)
    IN  IF LstSqRaises(features, targets)
        THEN [raised |-> TRUE, kratios |-> <<>>]
        ELSE LET fit == Scatter(sel, LstSqSolve(features, targets))
                 clamped == {i \in QParamIdx : ~zero1[i] /\ RatNegative(fit[i])}
                 zero2 == [i \in QParamIdx |-> zero1[i] \/ i \in clamped]
                 cull == CullByVariance(fit)
                 kr == [i \in QParamIdx |->
                          IF zero2[i] \/ ParamElement(i) \in cull \cup removed1
                          THEN Ratio(0, 1) ELSE fit[i]]
             IN  IF clamped /= {} \/ (cull \ removed1) /= {}
                 THEN GetKRatios(unknown, zero2, removed1, cull)
                 ELSE [raised |-> FALSE, kratios |-> kr]

\* The KRatioSet get_k_ratios builds: transition set -> k-ratio.
RawKRatioSet(kr) ==
    [key \in {{q_references[i].roi} : i \in QParamIdx} |->
        kr[CHOOSE i \in QParamIdx : {q_references[i].roi} = key]]

\* KRatioSet.find for the one-transition sets of point ROIs: an entry that
\* holds the query's weightiest transition is the query itself, so the scan
\* for similar sets finds nothing the exact lookup has not found.
Find(krs, key) == IF key \in DOMAIN krs THEN krs[key] ELSE None

\* KRatioSet.kratio_from_xrt_set_raw
KRatioFromXrtSetRaw(krs, key) ==
    IF Find(krs, key) /= None THEN Find(krs, key) ELSE Ratio(0, 1)

\* KRatioSet.kratio_from_xrt_set, for a key find knows
KRatioFromXrtSet(krs, key) ==
    IF Find(krs, key).num > 0 THEN Find(krs, key) ELSE Ratio(0, 1)

\* k_std with the scale subtracted instead of divided by (mutation).
RescaleBySubtraction(kr, sc) == Ratio(kr.num - sc * kr.den, kr.den)

\* k_std = kr / sc
Rescale(kr, sc) == Ratio(kr.num, kr.den * sc)

ReferencedRois == {q_references[i].roi : i \in QParamIdx}

\* compute: the k-ratios of the referenced ROIs relative to the standards.
FullKrs(raw) ==
    [key \in {{region} : region \in {r \in AllStandardRois \cap ReferencedRois :
                                    q_scales[r] > 0}} |->
        LET region == CHOOSE r \in key : TRUE
        IN  Rescale(KRatioFromXrtSetRaw(raw, key), q_scales[region])]

\* compute: one entry for every transition set of the raw fit.
WithStripped(raw) ==
    [key \in DOMAIN raw |->
        IF Find(FullKrs(raw), key) /= None
        THEN KRatioFromXrtSet(FullKrs(raw), key)
        ELSE KRatioFromXrtSet(raw, key)]

StandardSets ==
    UNION {[els -> Models] : els \in (SUBSET MeasurableElements) \ {{}}}

QInit ==
    /\ q_standards \in StandardSets
    /\ q_references = <<>>
    /\ q_scales = EmptyMap
    /\ q_unknown = EmptyMap
    /\ q_raw = EmptyMap
    /\ q_result = EmptyMap
    /\ q_pc = "new"

\* QuantifyModel(beam_energy, standards): _assign_references and
\* _compute_reference_scales.  suitable stands for the answers of
\* is_suitable_as_reference, required for a non-empty required_references.
\* A reference whose model differs from the standard's, or a required
\* reference, makes compute_reference_scale build ModelFit from a set, which
\* raises AttributeError in _assign_parameters; otherwise the scale is 1.0.
Construct ==
    /\ q_pc = "new"
    /\ \E suitable \in SUBSET (MeasuredElements \X AllStandardRois),
          required \in BOOLEAN :
        LET referenced ==
                {region \in AllStandardRois : AssignReference(region, suitable) /= {}}
        IN  \E pick \in [referenced -> MeasuredElements],
                order \in ReferenceOrders(referenced) :
                /\ \A region \in referenced :
                        pick[region] \in AssignReference(region, suitable)
                /\ LET refs == [i \in 1..Len(order) |->
                                    [roi |-> order[i],
                                     model |-> q_standards[pick[order[i]]]]]
                   IN  IF \E i \in 1..Len(order) :
                            \/ required
                            \/ refs[i].model /= q_standards[ElementOf(order[i])]
                       THEN /\ q_pc' = "ctor_raised"
                            /\ UNCHANGED <<q_references, q_scales>>
                       ELSE /\ q_references' = refs
                            /\ q_scales' = [region \in referenced |-> 1]
                            /\ q_pc' = "ready"
    /\ UNCHANGED <<q_standards, q_unknown, q_raw, q_result>>
    /\ UNCHANGED nonQuantVars

\* QuantifyModel.compute(unknown)
Compute ==
    /\ q_pc = "ready"
    /\ \E unknown \in Unknowns \cup {q_standards[el] : el \in MeasuredElements} :
        LET fit == GetKRatios(unknown, [i \in QParamIdx |-> FALSE], {}, {})
        IN  /\ q_unknown' = unknown
            /\ IF fit.raised
               THEN /\ q_pc' = "raised"
                    /\ UNCHANGED <<q_raw, q_result>>
               ELSE /\ q_raw' = RawKRatioSet(fit.kratios)
                    /\ q_result' = WithStripped(RawKRatioSet(fit.kratios))
                    /\ q_pc' = "done"
    /\ UNCHANGED <<q_standards, q_references, q_scales>>
    /\ UNCHANGED nonQuantVars

QuantNext == Construct \/ Compute

\* No QuantifyModel exists.
QuantIdle ==
    /\ q_standards = EmptyMap
    /\ q_references = <<>>
    /\ q_scales = EmptyMap
    /\ q_unknown = EmptyMap
    /\ q_raw = EmptyMap
    /\ q_result = EmptyMap
    /\ q_pc = "idle"

-----------------------------------------------------------------------------
(***************************************************************************)
(* FilterFit (fitting/filter_fit/filter_fit.py) over BaseSpectrum          *)
(* (spectrum/base_spectrum.py), TopHatFilter and FilteredSpectrum.         *)
(* A spectrum is the array of its counts per channel, written down as the  *)
(* set of channels that hold PeakCounts counts; every other channel holds  *)
(* none.  Energies are whole electronvolts; an energy the code keeps in    *)
(* joule is that number of electronvolts times the elementary charge.      *)
(* Filtered data are in units of normalization / (2m + 1), which makes the *)
(* kernel integral; background estimates and their squared errors are      *)
(* exact fractions.  With PeakCounts counts the floating-point kernel sums *)
(* are exact, so a filtered channel is zero in the code exactly when it is *)
(* zero here.                                                              *)
(***************************************************************************)
NChannels == 150

PeakCounts == 100

ChannelWidth == 100

MinBins == 5

MaxBins == 50

\* DetectorCalibration.zero_offset (eV)
ZeroOffsets == {0, 0 - 400}

\* int(round(width / channel_width)) of the detector's line-shape model
FilterWidths == {0, 3}

PeakSets == {{}, {17}, {4, 7}, {4, 7, 17}}

\* low_energy and high_energy of the ROI of a reference, in electronvolts
RoiWindows == {[low |-> 1200, high |-> 1499], [low |-> 1600, high |-> 1899]}

Channels == 0..(NChannels - 1)

\* BaseSpectrum.data
SpectrumData(peaks) ==
    [c \in Channels |-> IF c \in peaks THEN PeakCounts ELSE 0]

\* The sum of a sequence of numbers, by halves.
RECURSIVE SeqSum(_)
SeqSum(s) ==
    IF s = <<>> THEN 0
    ELSE IF Len(s) = 1 THEN s[1]
    ELSE SeqSum(SubSeq(s, 1, Len(s) \div 2))
         + SeqSum(SubSeq(s, (Len(s) \div 2) + 1, Len(s)))

RECURSIVE Gcd(_, _)
Gcd(a, b) == IF b = 0 THEN a ELSE Gcd(b, a % b)

Abs(a) == IF a < 0 THEN 0 - a ELSE a

\* The fraction in lowest terms with a positive denominator.
RatNorm(r) ==
    LET g == Gcd(Abs(r.num), Abs(r.den))
        s == IF r.den < 0 THEN 0 - 1 ELSE 1
    IN  Ratio(s * (r.num \div g), s * (r.den \div g))

RatPlus(a, b) == RatNorm(RatAdd(a, b))

RatMinus(a, b) == RatNorm(RatAdd(a, Ratio(0 - b.num, b.den)))

RatMul(a, b) == RatNorm(Ratio(a.num * b.num, a.den * b.den))

RatLess(a, b) == a.num * b.den < b.num * a.den

RatMax(a, b) == IF RatLess(a, b) THEN b ELSE a

\* Python's range(start, stop, step) for step 1 or -1.
Range(start, stop, step) ==
    LET n == IF step = 1 THEN Max2(stop - start, 0) ELSE Max2(start - stop, 0)
    IN  [k \in 1..n |-> start + step * (k - 1)]

\* base_spectrum.py:9-18
Bound(x, lower_inclusive, upper_exclusive) ==
    IF x < lower_inclusive THEN lower_inclusive
    ELSE IF x >= upper_exclusive THEN upper_exclusive - 1
    ELSE x

\* int() of a quotient: truncation towards zero.
TruncDiv(a, b) == IF a >= 0 THEN a \div b ELSE 0 - ((0 - a) \div b)

\* base_spectrum.py:133-137
ChannelFromEnergy(energy, zero_offset) ==
    TruncDiv(energy - zero_offset, ChannelWidth)

\* base_spectrum.py:86-89, with SpectrumProperties.zero_peak_discriminator
\* at its default of 0.0 eV.
ZeroPeakDiscriminatorChannel(zero_offset) == ChannelFromEnergy(0, zero_offset)

\* The sums a straight-line fit of y over x is made of.
RegressionTerms(x, y) ==
    LET n == Len(x)
        sx == SeqSum(x)
        sy == SeqSum(y)
        sxx == SeqSum([k \in 1..n |-> x[k] * x[k]])
        sxy == SeqSum([k \in 1..n |-> x[k] * y[k]])
        syy == SeqSum([k \in 1..n |-> y[k] * y[k]])
    IN  [n |-> n, sx |-> sx, sy |-> sy,
         d |-> n * sxx - sx * sx,
         c |-> n * sxy - sx * sy,
         v |-> n * syy - sy * sy]

\* linear_regression: numpy's lstsq returns an empty residual array unless
\* there are more rows than the two columns, and solution[1][0] then raises
\* IndexError.
LinearRegressionRaises(x) == Len(x) <= 2

\* linear_regression: (sqrt(solution[1][0]) / len(x)) squared.
RegressionErrorSquared(t) ==
    RatNorm(Ratio(t.v * t.d - t.c * t.c, t.n * t.d * t.n * t.n))

\* linear_regression: y_hat(x_i).
YHat(t, x_i) ==
    RatNorm(Ratio(t.c * (t.n * x_i - t.sx) + t.sy * t.d, t.n * t.d))

\* mean(data)
Mean(y) == RatNorm(Ratio(SeqSum(y), Len(y)))

\* standard_error(data) squared: variance(data) / len(data).
StandardErrorSquared(y) ==
    LET n == Len(y)
        sy == SeqSum(y)
        syy == SeqSum([k \in 1..n |-> y[k] * y[k]])
    IN  RatNorm(Ratio(n * syy - sy * sy, n * n * (n - 1)))

Estimate(best_result, best_error2) ==
    [raised |-> FALSE, result |-> best_result, error2 |-> best_error2]

EstimateRaised == [raised |-> TRUE, result |-> None, error2 |-> None]

\* estimate_background, the else branch: the running mean over the list y,
\* which takes the counts of rest one after the other.
RECURSIVE RunningMean(_, _, _, _)
RunningMean(y, rest, best_result, best_error2) ==
    IF rest = <<>>
    THEN Estimate(best_result, RatMax(Ratio(1, 1), best_error2))
    ELSE LET y2 == Append(y, Head(rest))
             error2 == StandardErrorSquared(y2)
         IN  IF RatLess(error2, best_error2)
             THEN RunningMean(y2, Tail(rest), Mean(y2), error2)
             ELSE RunningMean(y2, Tail(rest), best_result, best_error2)

\* BaseSpectrum.estimate_background for mode "low" or "high": the estimate
\* and the square of its error, or the exception it ends with.
EstimateBackground(data, mode, start) ==
    LET direction == IF mode = "low" THEN 0 - 1 ELSE 1
        limit == IF mode = "low" THEN 0 ELSE NChannels - 1
        end == Bound(start + direction * MinBins, 0, NChannels)
        x == Range(start, end + direction, direction)
        y == [k \in 1..Len(x) |-> data[x[k]]]
        t == RegressionTerms(x, y)
        far == Bound(start + direction * MaxBins, 0, NChannels)
        more == Range(start + direction * (MinBins + 1), far + direction,
                      direction)
    IN  IF ~(0 < start /\ start < NChannels - 1)
        THEN Estimate(Ratio(data[limit], 1),
                      Ratio(data[limit] * data[limit], 1))
        ELSE IF LinearRegressionRaises(x) THEN EstimateRaised
        ELSE IF RatLess(RegressionErrorSquared(t), Ratio(4, 1))
             THEN \* x and y are the tuples zip returned: the first
                  \* x.append raises AttributeError.
                  IF more /= <<>> THEN EstimateRaised
                  \* math.sqrt(best_result) of a negative number
                  ELSE IF RatNegative(YHat(t, start)) THEN EstimateRaised
                  ELSE Estimate(YHat(t, start),
                                RatMax(Ratio(1, 1),
                                       RatMul(YHat(t, start),
                                              RegressionErrorSquared(t))))
             ELSE RunningMean(<<y[1]>>, Tail(y), Ratio(y[1], 1),
                              Ratio(y[1], 1))

\* BaseSpectrum.background_corrected_integral: bci[0], the square of bci[1],
\* or the exception of one of the two estimates.
BackgroundCorrectedIntegral(data, zero_offset, e_low, e_high) ==
    LET min_channel == Bound(ChannelFromEnergy(e_low, zero_offset), 0, NChannels)
        max_channel == Bound(ChannelFromEnergy(e_high, zero_offset), 0, NChannels)
        low == EstimateBackground(data, "low", min_channel - 1)
        high == EstimateBackground(data, "high", max_channel + 1)
        width == (max_channel - min_channel) + 1
        both == RatPlus(low.result, high.result)
        above == RatMul(Ratio(width, 2), both)
        dev_above2 == IF both.num /= 0
                      THEN RatMul(Ratio(width * width, 4),
                                  RatPlus(low.error2, high.error2))
                      ELSE Ratio(1, 1)
        integral == SeqSum([k \in 1..Max2(width, 0) |->
                                data[min_channel + k - 1]])
    IN  IF low.raised \/ high.raised
        THEN [raised |-> TRUE, net |-> None, variance |-> None]
        ELSE [raised |-> FALSE,
              net |-> RatMinus(Ratio(integral, 1), above),
              variance |-> RatPlus(dev_above2, Ratio(integral, 1))]

\* filter_fit.py:49: ToSI.ev applied to a ROI bound that is in joule already.
\* E electronvolts become E * 1.6e-19 * 1.6e-19, which channel_from_energy
\* then reads as electronvolts: less than 1e-33 eV for every E below 1e5,
\* and in floating point zero_offset + 1e-33 = zero_offset unless the
\* offset is 0.0, where int(1e-33 / channel_width) is 0 as well.
ToSIEvOfJoule(energy) == 0

\* filter_fit.py:50: (bci[0] / bci[1]) > 3.0
SignificantPeak(bci) ==
    /\ bci.net.num > 0
    /\ RatLess(RatMul(Ratio(9, 1), bci.variance), RatMul(bci.net, bci.net))

\* The kernel with a centre of ones (mutation).
TopHatFilterUnitCentre(width) ==
    LET m == Max2(width - (1 \div 2), 2)
    IN  [j \in 1..((4 * m) + 1) |->
            IF j - 1 < m \/ j - 1 >= m + (2 * m) + 1
            THEN 0 - ((2 * m) + 1)
            ELSE (2 * m) + 1]

\* filter.py:51-61, times 2m + 1: -1.0 on the flanks, k = 2n / (2m + 1)
\* in the centre.  The width is int(round(width / channel_width)).
TopHatFilter(width) ==
    LET m == Max2(width - (1 \div 2), 2)
        n == m
        filter_len == (2 * n) + (2 * m) + 1
    IN  [j \in 1..filter_len |->
            IF j - 1 < n \/ j - 1 >= n + (2 * m) + 1
            THEN 0 - ((2 * m) + 1)
            ELSE 2 * n]

\* filtered_spectrum.py:59-64: the sum over the kernel from index j on.
RECURSIVE KernelSum(_, _, _, _, _)
KernelSum(filter_array, data, len, first, j) ==
    IF j >= Len(filter_array) THEN 0
    ELSE filter_array[j + 1] * data[Bound(first + j, 0, len)]
         + KernelSum(filter_array, data, len, first, j + 1)

\* interval.py:46-52
\* np.argmax of a boolean array (a function on 0..n-1): the index of its
\* first True, and 0 when no entry is True.
ArgMax(flags) ==
    LET hits == {c \in DOMAIN flags : flags[c]}
    IN  IF hits = {} THEN 0 ELSE CHOOSE c \in hits : \A o \in hits : c <= o

\* np.argmax of an empty array raises ValueError.
NonZeroIntervalRaises(data) == DOMAIN data = {}

\* NonZeroInterval.__init__: argmax(data != 0) and
\* len(data) - 1 - argmax(data[::-1] != 0).
NonZeroInterval(data) ==
    LET n == Cardinality(DOMAIN data)
        forward == [c \in DOMAIN data |-> data[c] /= 0]
        backward == [c \in DOMAIN data |-> data[n - 1 - c] /= 0]
    IN  Interval(ArgMax(forward), n - 1 - ArgMax(backward))

\* FilteredSpectrum._compute: the filtered data and their non-zero interval,
\* or IndexError when the ROI leaves no channel to read.  Without a ROI the
\* channels below the zero-peak discriminator take its counts.
FilteredSpectrum(source, zero_offset, filter_array, has_roi, region) ==
    LET lld == ZeroPeakDiscriminatorChannel(zero_offset)
        low_channel ==
            IF has_roi
            THEN Bound(Max2(lld, ChannelFromEnergy(region.low, zero_offset)),
                       0, NChannels)
            ELSE 0
        high_channel ==
            IF has_roi
            THEN Bound(ChannelFromEnergy(region.high, zero_offset), 0, NChannels)
            ELSE NChannels - 1
        len == Max2((high_channel + 1) - low_channel, 0)
        data == IF has_roi
                THEN [c \in 0..(len - 1) |-> source[low_channel + c]]
                ELSE [c \in Channels |->
                         IF c < lld THEN source[lld] ELSE source[c]]
        half_length == Len(filter_array) \div 2
        other_length == Len(filter_array) - half_length
        filtered_data ==
            [channel \in Channels |->
                LET i == channel - low_channel
                IN  IF (0 - half_length) <= i /\ i < len + other_length
                    THEN KernelSum(filter_array, data, len, i - half_length, 0)
                    ELSE 0]
    IN  IF len = 0 \/ lld >= NChannels
        THEN [raised |-> TRUE, data |-> <<>>, non_zero_interval |-> Interval(0, 0)]
        ELSE [raised |-> FALSE, data |-> filtered_data,
              non_zero_interval |-> NonZeroInterval(filtered_data)]

\* FilterFit.filter_reference followed by FilterParameter(filtered, ...):
\* a peak that is not significant leaves filtered at None, and
\* FilterParameter then raises AttributeError on filtered.element.
FilterReference(reference, zero_offset, filter_array) ==
    LET bci == BackgroundCorrectedIntegral(SpectrumData(reference.peaks),
                   zero_offset, ToSIEvOfJoule(reference.roi.low),
                   ToSIEvOfJoule(reference.roi.high))
    IN  IF bci.raised \/ bci.variance.num = 0 \/ ~SignificantPeak(bci)
        THEN [raised |-> TRUE, data |-> <<>>, non_zero_interval |-> Interval(0, 0)]
        ELSE FilteredSpectrum(SpectrumData(reference.peaks), zero_offset,
                              filter_array, TRUE, reference.roi)

\* fill_data: np.isnan(data) | (data < thresh) with the default thresh of
\* float('inf') holds for every number that is not +inf, and every number
\* of a filtered spectrum is finite.
BelowThresh(value) == TRUE

\* FilterFit.fill_data with the default thresh: the indices below thresh
\* are visited in rising order, index 0 becomes 0.0 and every other one
\* the value at the index before it, which the loop has filled already.
\* Each index so ends with the value of the nearest index at or before it
\* that was not visited, or with 0.0 when there is none.
FillData(data) ==
    [k \in 1..Len(data) |->
        LET kept == {j \in 1..k : ~BelowThresh(data[j])}
        IN  IF kept = {} THEN 0
            ELSE data[CHOOSE j \in kept : \A o \in kept : o <= j]]

\* data[idx] for a boolean mask idx: the entries at the masked channels.
Masked(data, idx) ==
    LET chosen == SelectSeq([k \in 1..NChannels |-> k - 1],
                            LAMBDA c : idx[c])
    IN  [k \in 1..Len(chosen) |-> data[chosen[k]]]

Dot(a, b) == SeqSum([k \in 1..Len(a) |-> a[k] * b[k]])

\* np.linalg.lstsq(features, targets) for one or two columns: the solution
\* of the normal equations, and the minimum-norm solution where the columns
\* are dependent (zero for a column of zeros).
FilterLstSq(columns, targets) ==
    IF Len(columns) = 1
    THEN LET g == Dot(columns[1], columns[1])
         IN  <<IF g = 0 THEN Ratio(0, 1)
               ELSE RatNorm(Ratio(Dot(columns[1], targets), g))>>
    ELSE LET g11 == Dot(columns[1], columns[1])
             g12 == Dot(columns[1], columns[2])
             g22 == Dot(columns[2], columns[2])
             b1 == Dot(columns[1], targets)
             b2 == Dot(columns[2], targets)
             det == g11 * g22 - g12 * g12
         IN  IF det /= 0
             THEN <<RatNorm(Ratio(b1 * g22 - b2 * g12, det)),
                    RatNorm(Ratio(b2 * g11 - b1 * g12, det))>>
             ELSE IF g11 + g22 = 0
                  THEN <<Ratio(0, 1), Ratio(0, 1)>>
                  ELSE <<RatNorm(Ratio(b1, g11 + g22)),
                         RatNorm(Ratio(b2, g11 + g22))>>

\* FilterFit.features_and_targets: the filled columns of the selected
\* parameters and the filled targets.
FeaturesAndTargets(unknown, zero_offset, filter_array, chosen) ==
    LET filtered == FilteredSpectrum(SpectrumData(unknown), zero_offset,
                                     filter_array, FALSE, Interval(0, 0))
        ivs == SortMerge([k \in 1..Len(chosen) |-> chosen[k].non_zero_interval])
        idx == Extract(NChannels, ivs)
    IN  [features |-> [k \in 1..Len(chosen) |->
                          FillData(Masked(chosen[k].data, idx))],
         targets |-> FillData(Masked(filtered.data, idx))]

\* LinearFit.get_k_ratios as FilterFit runs it, without a culling
\* strategy: pass after pass from the mask zero and the k-ratios kr on.
\* np.vstack raises ValueError when no parameter is selected.
RECURSIVE FilterGetKRatios(_, _, _, _, _, _)
FilterGetKRatios(params, unknown, zero_offset, filter_array, zero, kr) ==
    LET sel == SelectSeq([k \in 1..Len(params) |-> k], LAMBDA i : ~zero[i])
        ft == FeaturesAndTargets(unknown, zero_offset, filter_array,
                                 [k \in 1..Len(sel) |-> params[sel[k]]])
        fit == FilterLstSq(ft.features, ft.targets)
        pos(i) == CHOOSE k \in 1..Len(sel) : sel[k] = i
        clamped(i) == ~zero[i] /\ RatNegative(fit[pos(i)])
        kr2 == [i \in 1..Len(params) |->
                   IF zero[i] THEN kr[i]
                   ELSE IF clamped(i) THEN Ratio(0, 1) ELSE fit[pos(i)]]
        zero2 == [i \in 1..Len(params) |-> zero[i] \/ clamped(i)]
    IN  IF sel = <<>> THEN [raised |-> TRUE, kratios |-> <<>>]
        ELSE IF \E i \in 1..Len(params) : clamped(i)
             THEN FilterGetKRatios(params, unknown, zero_offset, filter_array,
                                   zero2, kr2)
             ELSE [raised |-> FALSE, kratios |-> kr2]

\* The references dicts of at most two entries, in insertion order.
ReferenceDicts ==
    LET entries == {[peaks |-> p, roi |-> w] : p \in PeakSets, w \in RoiWindows}
    IN  {<<>>}
        \cup {<<a>> : a \in entries}
        \cup {d \in {<<a, b>> : a \in entries, b \in entries} :
                 d[1].roi /= d[2].roi}

FilterInit ==
    /\ f_zero_offset \in ZeroOffsets
    /\ f_width \in FilterWidths
    /\ f_unknown \in PeakSets
    /\ f_references \in ReferenceDicts
    /\ f_parameters = <<>>
    /\ f_result = <<>>
    /\ f_pc = "new"

\* FilterFit(references, detector): _assign_parameters filters every
\* reference in turn.
FilterConstruct ==
    /\ f_pc = "new"
    /\ LET made == [k \in 1..Len(f_references) |->
                       FilterReference(f_references[k], f_zero_offset,
                                       TopHatFilter(f_width))]
       IN  IF \E k \in 1..Len(made) : made[k].raised
           THEN /\ f_pc' = "ctor_raised"
                /\ UNCHANGED f_parameters
           ELSE /\ f_pc' = "built"
                /\ f_parameters' = made
    /\ UNCHANGED <<f_zero_offset, f_width, f_unknown, f_references, f_result>>
    /\ UNCHANGED nonFilterVars

\* FilterFit.get_k_ratios(unknown)
FilterCompute ==
    /\ f_pc = "built"
    /\ LET n == Len(f_parameters)
           fit == FilterGetKRatios(f_parameters, f_unknown, f_zero_offset,
                                   TopHatFilter(f_width),
                                   [i \in 1..n |-> FALSE],
                                   [i \in 1..n |-> Ratio(0, 1)])
       IN  IF fit.raised
           THEN /\ f_pc' = "raised"
                /\ UNCHANGED f_result
           ELSE /\ f_pc' = "done"
                /\ f_result' = fit.kratios
    /\ UNCHANGED <<f_zero_offset, f_width, f_unknown, f_references,
                   f_parameters>>
    /\ UNCHANGED nonFilterVars

FilterNext == FilterConstruct \/ FilterCompute

\* No FilterFit exists.
FilterIdle ==
    /\ f_zero_offset = 0
    /\ f_width = 0
    /\ f_unknown = {}
    /\ f_references = <<>>
    /\ f_parameters = <<>>
    /\ f_result = <<>>
    /\ f_pc = "idle"

-----------------------------------------------------------------------------
(***************************************************************************)
(* KRatioSet (kratio.py) keyed by XRayTransitionSet objects (xrt.py).      *)
(*                                                                         *)
(* An XRayTransitionSet object is its element and the lines of its xrts    *)
(* (add and the populating constructor admit transitions of the set's own  *)
(* element only).  KRatioSet._data is a dict: its entries are kept in      *)
(* insertion order, a key is looked up with XRayTransitionSet.__eq__ and   *)
(* an overwritten entry keeps the key object that was inserted first.      *)
(* k_shadow is the associative map over (element, lines) keys that the     *)
(* same calls produce; it is history, not program state.                   *)
(***************************************************************************)
MaxKCalls == 3

KLines == {"KA1", "KB1"}

KLineSets == {{}, {"KA1"}, {"KA1", "KB1"}}

KValues == {0 - 1, 1}

\* XRayTransition.get_weight(element, transition, "family"), in tenths:
\* LINE_WEIGHT[z][transition] / FAMILY_NORM[z][family].
FamilyWeight(element, line) ==
    IF element = "Si"
    THEN (IF line = "KA1" THEN 9 ELSE 1)
    ELSE (IF line = "KA1" THEN 8 ELSE 2)

XRayTransitionSet(element, lines) == [element |-> element, lines |-> lines]

KRatioKeys ==
    {XRayTransitionSet(e, l) : e \in Elements, l \in KLineSets}

\* XRayTransitionSet.__eq__ compares the xrts sets; XRayTransition.__eq__
\* compares transition, source_shell and destination_shell, all of them
\* indexes that do not depend on the element.
XRayTransitionSetEq(a, b) == a.lines = b.lines

\* The outcome of a call: a float, None, or an exception.
Value(v) == [kind |-> "value", value |-> v]
NoneValue == [kind |-> "none", value |-> 0]
Raised == [kind |-> "raised", value |-> 0]
Void == [kind |-> "void", value |-> 0]

\* The position of the dict entry whose key equals xrt_set, 0 without one.
KeyIndex(data, xrt_set) ==
    LET hits == {i \in 1..Len(data) : XRayTransitionSetEq(data[i].key, xrt_set)}
    IN  IF hits = {} THEN 0 ELSE CHOOSE i \in hits : TRUE

\* KRatioSet.add: self._data[xrt_set] = kratio.
KRatioSetAdd(data, xrt_set, value) ==
    LET i == KeyIndex(data, xrt_set)
    IN  IF i = 0
        THEN Append(data, [key |-> xrt_set, value |-> value])
        ELSE [data EXCEPT ![i].value = value]

\* KRatioSet.remove: if xrt_set in self.xrt_sets: del self._data[xrt_set].
KRatioSetRemove(data, xrt_set) ==
    LET i == KeyIndex(data, xrt_set)
    IN  IF i = 0
        THEN data
        ELSE SubSeq(data, 1, i - 1) \o SubSeq(data, i + 1, Len(data))

RECURSIVE WeightSum(_, _, _)
\* The sum of weight("family") over the transition objects of a union
\* self.xrts | xrt_set.xrts: a line of both sets is self's object.
WeightSum(lines, self, other) ==
    IF lines = {} THEN 0
    ELSE LET l == CHOOSE x \in lines : TRUE
             w == IF l \in self.lines
                  THEN FamilyWeight(self.element, l)
                  ELSE FamilyWeight(other.element, l)
         IN  w + WeightSum(lines \ {l}, self, other)

\* XRayTransitionSet.weightiest_transition raises ValueError when no
\* transition of the set has a positive weight.
WeightiestTransitionRaises(xrt_set) ==
    {l \in xrt_set.lines : FamilyWeight(xrt_set.element, l) > 0} = {}

WeightiestTransition(xrt_set) ==
    CHOOSE l \in xrt_set.lines :
        \A m \in xrt_set.lines :
            FamilyWeight(xrt_set.element, m) <= FamilyWeight(xrt_set.element, l)

\* XRayTransitionSet.similarity as the fraction score / total.
Similarity(self, xrt_set) ==
    [score |-> WeightSum(self.lines \cap xrt_set.lines, self, xrt_set),
     total |-> WeightSum(self.lines \cup xrt_set.lines, self, xrt_set)]

RECURSIVE FindSimilar(_, _, _, _, _)
\* The loop of KRatioSet.find over self._data.items().
FindSimilar(data, i, xrt_set, score, found) ==
    IF i > Len(data) THEN found
    ELSE LET entry == data[i]
             similarity == Similarity(xrt_set, entry.key)
             better ==
                 /\ WeightiestTransition(xrt_set) \in entry.key.lines
                 /\ similarity.total > 0
                 /\ 10 * similarity.score > 8 * similarity.total
                 /\ similarity.score * score.total
                        > score.score * similarity.total
         IN  FindSimilar(data, i + 1, xrt_set,
                         IF better THEN similarity ELSE score,
                         IF better THEN Value(entry.value) ELSE found)

\* KRatioSet.find.
KRatioSetFind(data, xrt_set) ==
    LET i == KeyIndex(data, xrt_set)
    IN  IF i > 0 THEN Value(data[i].value)
        ELSE IF WeightiestTransitionRaises(xrt_set) THEN Raised
        ELSE FindSimilar(data, 1, xrt_set, [score |-> 0, total |-> 1],
                         NoneValue)

\* KRatioSet.kratio_from_xrt_set: kratio if kratio > 0.0 else 0.0, where
\* None > 0.0 raises TypeError.
KRatioSetKRatioFromXrtSet(data, xrt_set) ==
    LET found == KRatioSetFind(data, xrt_set)
    IN  IF found.kind /= "value" THEN Raised
        ELSE IF found.value > 0 THEN found ELSE Value(0)

\* The record of one call: the data and the stored keys it started from.
KCall(name, xrt_set, out) ==
    [name |-> name, key |-> xrt_set, out |-> out,
     before |-> k_data, stored |-> DOMAIN k_shadow]

KRatioInit ==
    /\ k_data = <<>>
    /\ k_shadow = EmptyMap
    /\ k_op = [name |-> "init", key |-> XRayTransitionSet("Si", {}),
               out |-> Void, before |-> <<>>, stored |-> {}]
    /\ k_calls = 0

KAdd ==
    \E xrt_set \in KRatioKeys, value \in KValues :
        /\ k_calls < MaxKCalls
        /\ k_data' = KRatioSetAdd(k_data, xrt_set, value)
        /\ k_shadow' = Put(k_shadow, xrt_set, value)
        /\ k_op' = KCall("add", xrt_set, Void)
        /\ k_calls' = k_calls + 1
        /\ UNCHANGED nonKRatioVars

KRemove ==
    \E xrt_set \in KRatioKeys :
        /\ k_calls < MaxKCalls
        /\ k_data' = KRatioSetRemove(k_data, xrt_set)
        /\ k_shadow' = [k \in DOMAIN k_shadow \ {xrt_set} |-> k_shadow[k]]
        /\ k_op' = KCall("remove", xrt_set, Void)
        /\ k_calls' = k_calls + 1
        /\ UNCHANGED nonKRatioVars

KFind ==
    \E xrt_set \in KRatioKeys :
        /\ k_calls < MaxKCalls
        /\ k_op' = KCall("find", xrt_set, KRatioSetFind(k_data, xrt_set))
        /\ k_calls' = k_calls + 1
        /\ UNCHANGED <<k_data, k_shadow, nonKRatioVars>>

KFromXrtSet ==
    \E xrt_set \in KRatioKeys :
        /\ k_calls < MaxKCalls
        /\ k_op' = KCall("kratio_from_xrt_set", xrt_set,
                         KRatioSetKRatioFromXrtSet(k_data, xrt_set))
        /\ k_calls' = k_calls + 1
        /\ UNCHANGED <<k_data, k_shadow, nonKRatioVars>>

KRatioNext == KAdd \/ KRemove \/ KFind \/ KFromXrtSet

KRatioIdle ==
    /\ k_data = <<>>
    /\ k_shadow = EmptyMap
    /\ k_op = "none"
    /\ k_calls = 0

-----------------------------------------------------------------------------
(***************************************************************************)
(* BaseSpectrum.background_corrected_integral called on its own            *)
(* (spectrum/base_spectrum.py): a spectrum of NChannels channels whose     *)
(* counts are zero outside the window that is integrated.                  *)
(***************************************************************************)
\* The windows, as their first and last channel.
IntegralWindows ==
    {<<16, 18>>, <<70, 72>>, <<7, 9>>, <<3, 5>>, <<1, 3>>,
     <<NChannels - 7, NChannels - 5>>, <<NChannels - 10, NChannels - 8>>,
     <<3, NChannels - 4>>, <<1, NChannels - 2>>, <<0, NChannels - 1>>}

\* BaseSpectrum.min_energy_from_channel
MinEnergyFromChannel(channel, zero_offset) ==
    zero_offset + channel * ChannelWidth

IntegralInit ==
    /\ b_zero_offset \in ZeroOffsets
    /\ \E w \in IntegralWindows :
           /\ b_window = [low |-> w[1], high |-> w[2]]
           /\ b_peaks \in SUBSET {w[1], w[1] + 1, w[2]}
    /\ b_result = [raised |-> FALSE, net |-> None, variance |-> None]
    /\ b_pc = "new"

IntegralCall ==
    /\ b_pc = "new"
    /\ b_result' = BackgroundCorrectedIntegral(
                       SpectrumData(b_peaks), b_zero_offset,
                       MinEnergyFromChannel(b_window.low, b_zero_offset),
                       MinEnergyFromChannel(b_window.high, b_zero_offset))
    /\ b_pc' = IF b_result'.raised THEN "raised" ELSE "done"
    /\ UNCHANGED <<b_zero_offset, b_window, b_peaks, nonIntegralVars>>

IntegralNext == IntegralCall

IntegralIdle ==
    /\ b_zero_offset = 0
    /\ b_window = "none"
    /\ b_peaks = {}
    /\ b_result = "none"
    /\ b_pc = "none"

-----------------------------------------------------------------------------
(***************************************************************************)
(* NonZeroInterval (fitting/filter_fit/interval.py) constructed on its own *)
(* over short arrays.                                                      *)
(***************************************************************************)
MaxSamples == 4

SampleValues == {0 - 1, 0, 1}

SupportInit ==
    /\ \E n \in 0..MaxSamples : s_data \in [0..(n - 1) -> SampleValues]
    /\ s_interval = Interval(0, 0)
    /\ s_pc = "new"

\* NonZeroInterval(data)
SupportConstruct ==
    /\ s_pc = "new"
    /\ IF NonZeroIntervalRaises(s_data)
       THEN s_pc' = "raised" /\ UNCHANGED s_interval
       ELSE s_pc' = "done" /\ s_interval' = NonZeroInterval(s_data)
    /\ UNCHANGED <<s_data, nonSupportVars>>

SupportNext == SupportConstruct

SupportIdle ==
    /\ s_data = <<>>
    /\ s_interval = "none"
    /\ s_pc = "none"

-----------------------------------------------------------------------------
(***************************************************************************)
(* QuantifyUsingStandards.assign_reference for one ROI                     *)
(* (quantification/quantify_using_standards.py).  A standard of the        *)
(* _standards dict is its key element and, for the ROI at hand, the three  *)
(* answers the method asks it for: whether its composition contains the    *)
(* ROI's first element, is_suitable_as_reference(roi) and                  *)
(* nominal_signal_to_noise(roi).  The ROI has a first element, as every    *)
(* ROI of a RegionOfInterestSet has.                                       *)
(***************************************************************************)
MaxStandards == 3

StandardElements == Elements \cup {"O"}

SignalToNoise == {0, 1, 2}

StandardAnswers ==
    [contains : BOOLEAN, suitable : BOOLEAN, sn : SignalToNoise]

\* The _standards dicts: distinct keys in any insertion order.
StandardDicts ==
    UNION {{s \in [1..n -> [element : StandardElements,
                            answers : StandardAnswers]] :
               \A i, j \in 1..n : s[i].element = s[j].element => i = j} :
           n \in 0..MaxStandards}

UserReference == [kind |-> "user", standard |-> "none"]
NoReference == [kind |-> "none", standard |-> "none"]

\* create_reference(standard)
CreateReference(standard) ==
    [kind |-> "standard", standard |-> standard.element]

RECURSIVE BestSignalToNoiseOrEqual(_, _, _, _)
BestSignalToNoiseOrEqual(standards, i, rm, best_sn) ==
    IF i > Len(standards) THEN rm
    ELSE LET standard == standards[i]
         IN  IF /\ standard.answers.contains
                /\ standard.answers.suitable
                /\ standard.answers.sn >= best_sn
             THEN BestSignalToNoiseOrEqual(standards, i + 1,
                                           CreateReference(standard),
                                           standard.answers.sn)
             ELSE BestSignalToNoiseOrEqual(standards, i + 1, rm, best_sn)

RECURSIVE BestSignalToNoise(_, _, _, _)
\* quantify_using_standards.py:43-51: the loop over self.standards.values().
BestSignalToNoise(standards, i, rm, best_sn) ==
    IF i > Len(standards) THEN rm
    ELSE LET standard == standards[i]
         IN  IF /\ standard.answers.contains
                /\ standard.answers.suitable
                /\ standard.answers.sn > best_sn
             THEN BestSignalToNoise(standards, i + 1,
                                    CreateReference(standard),
                                    standard.answers.sn)
             ELSE BestSignalToNoise(standards, i + 1, rm, best_sn)

\* quantify_using_standards.py:37-51
AssignReferenceOf(user, element, standards) ==
    LET own == {i \in 1..Len(standards) : standards[i].element = element}
    IN  IF user THEN UserReference
        ELSE IF \E i \in own : standards[i].answers.suitable
             THEN CreateReference(standards[CHOOSE i \in own : TRUE])
        ELSE BestSignalToNoise(standards, 1, NoReference, 0)

AssignInit ==
    /\ a_standards \in StandardDicts
    /\ a_element \in Elements
    /\ a_user \in BOOLEAN
    /\ a_result = NoReference
    /\ a_pc = "new"

AssignCall ==
    /\ a_pc = "new"
    /\ a_result' = AssignReferenceOf(a_user, a_element, a_standards)
    /\ a_pc' = "done"
    /\ UNCHANGED <<a_standards, a_element, a_user, nonAssignVars>>

AssignNext == AssignCall

AssignIdle ==
    /\ a_standards = <<>>
    /\ a_element = "none"
    /\ a_user = FALSE
    /\ a_result = "none"
    /\ a_pc = "none"

-----------------------------------------------------------------------------
(***************************************************************************)
(* CullByVariance.compute (fitting/culling.py) on its own.  A float is a   *)
(* fraction; NaN is 0/0 and infinity is 1/0.                               *)
(***************************************************************************)
MaxCullParams == 3

NaN == Ratio(0, 0)

PlusInf == Ratio(1, 0)

IsNaN(x) == x.num = 0 /\ x.den = 0

IsFinite(x) == x.den /= 0

\* The entries of a fit vector and the significance levels.
FitValues == {Ratio(0 - 2, 1), Ratio(0 - 1, 1), Ratio(0, 1), Ratio(1, 1), NaN}

Significances == {Ratio(0 - 2, 1), Ratio(0, 1), Ratio(3, 1), PlusInf}

\* np.mean of a non-empty list of finite or NaN floats.
NpMean(kratios) ==
    IF \E k \in 1..Len(kratios) : IsNaN(kratios[k]) THEN NaN
    ELSE RatNorm(Ratio(RatSum(kratios).num, RatSum(kratios).den * Len(kratios)))

\* np.var of a scalar: the mean of |x - mean(x)|**2 over its one value.
NpVarOfScalarAsOne(x) == IF IsFinite(x) THEN Ratio(1, 1) ELSE NaN

NpVarOfScalar(x) ==
    IF IsFinite(x) THEN RatMul(RatMinus(x, x), RatMinus(x, x)) ELSE NaN

\* significance * variance in IEEE arithmetic: inf * 0.0 is NaN.
FloatTimes(a, b) ==
    IF IsNaN(a) \/ IsNaN(b) THEN NaN
    ELSE IF ~IsFinite(a) THEN (IF b.num = 0 THEN NaN ELSE PlusInf)
    ELSE RatMul(a, b)

\* a < b on floats: False when either side is NaN.
FloatLess(a, b) ==
    IF IsNaN(a) \/ IsNaN(b) THEN FALSE
    ELSE IF ~IsFinite(b) THEN IsFinite(a)
    ELSE IsFinite(a) /\ RatLess(a, b)

\* culling.py:48-51: the fit entries of the parameters of one element.
RECURSIVE KRatiosOf(_, _, _, _)
KRatiosOf(params, fit_result, element, i) ==
    IF i > Len(params) THEN <<>>
    ELSE (IF params[i] = element THEN <<fit_result[i]>> ELSE <<>>)
             \o KRatiosOf(params, fit_result, element, i + 1)

\* CullByVariance.compute
CullByVarianceCompute(params, fit_result, significance) ==
    {element \in {params[i] : i \in 1..Len(params)} :
        LET kratio_mean == NpMean(KRatiosOf(params, fit_result, element, 1))
        IN  /\ ~IsNaN(kratio_mean)
            /\ FloatLess(kratio_mean,
                         FloatTimes(significance, NpVarOfScalar(kratio_mean)))}

CullInit ==
    /\ \E n \in 0..MaxCullParams :
           /\ c_parameters \in [1..n -> Elements]
           /\ c_fit_result \in [1..n -> FitValues]
    /\ c_significance \in Significances
    /\ c_remove = {}
    /\ c_pc = "new"

CullCompute ==
    /\ c_pc = "new"
    /\ c_remove' = CullByVarianceCompute(c_parameters, c_fit_result,
                                         c_significance)
    /\ c_pc' = "done"
    /\ UNCHANGED <<c_parameters, c_fit_result, c_significance, nonCullVars>>

CullNext == CullCompute

CullIdle ==
    /\ c_parameters = <<>>
    /\ c_fit_result = <<>>
    /\ c_significance = "none"
    /\ c_remove = {}
    /\ c_pc = "none"

-----------------------------------------------------------------------------
(***************************************************************************)
(* TopHatFilter constructed on its own (filter_fit/filter.py).  Width and  *)
(* channel width are whole electronvolts; the kernel is kept times 2m + 1  *)
(* as in TopHatFilter above, so that its entries are integers.             *)
(***************************************************************************)
MaxFilterWidth == 30

TopHatChannelWidths == {0, 1, 2, 4}

\* int(round(num / den)) for num >= 0 and den > 0: Python rounds a tie to
\* the even neighbour.
RoundHalfEven(num, den) ==
    LET q == num \div den
        r == num % den
    IN  IF 2 * r < den THEN q
        ELSE IF 2 * r > den THEN q + 1
        ELSE IF q % 2 = 0 THEN q ELSE q + 1

TopHatInit ==
    /\ t_width \in 0..MaxFilterWidth
    /\ t_channel_width \in TopHatChannelWidths
    /\ t_filter = <<>>
    /\ t_pc = "new"

\* TopHatFilter(width, channel_width): Filter.__init__ and
\* _initialize_filter; a channel width of zero raises ZeroDivisionError.
TopHatConstruct ==
    /\ t_pc = "new"
    /\ IF t_channel_width = 0
       THEN /\ t_pc' = "raised"
            /\ UNCHANGED t_filter
       ELSE /\ t_pc' = "built"
            /\ t_filter' = TopHatFilter(RoundHalfEven(t_width, t_channel_width))
    /\ UNCHANGED <<t_width, t_channel_width>>
    /\ UNCHANGED nonTopHatVars

TopHatNext == TopHatConstruct

\* No TopHatFilter is being constructed.
TopHatIdle ==
    /\ t_width = 0
    /\ t_channel_width = 0
    /\ t_filter = <<>>
    /\ t_pc = "idle"

-----------------------------------------------------------------------------
(***************************************************************************)
(* One ModelFit(references, CullByVariance(0.0)) whose get_k_ratios is     *)
(* called again and again (linear_fit.py).  The fit is the one of the      *)
(* QuantifyModel section, built directly: q_references holds its           *)
(* references and q_pc is "fit".  Between two calls the instance keeps     *)
(* the kratio of its Parameter objects; a caller keeps the KRatioSet       *)
(* objects it was handed (r_heap, r_log).                                  *)
(***************************************************************************)
MaxRefitCalls == 3

\* The references dicts of the fit: one or two point ROIs, each with a
\* model that has data for the ROI's transition.
RefitReferences ==
    {refs \in UNION {[1..n -> [roi : Transitions, model : Models]] : n \in 1..2} :
        /\ \A i \in DOMAIN refs : DOMAIN refs[i].model = {refs[i].roi}
        /\ \A i, j \in DOMAIN refs : i /= j => refs[i].roi /= refs[j].roi}

\* The unknowns handed to get_k_ratios.
RefitUnknowns == {u \in Unknowns : DOMAIN u \subseteq {"Si KA1", "Fe LA1"}}

\* linear_fit.py:66-67: p.kratio = 0.0 for every parameter.
ResetKRatios == [i \in QParamIdx |-> Ratio(0, 1)]

\* linear_fit.py:68-96: the solve loop from the head of one pass on, kr
\* being the kratio of the parameters; an exception leaves them as they are.
RECURSIVE RefitLoop(_, _, _, _, _)
RefitLoop(unknown, zero, rmd, rm, kr) ==
    LET removed1 == rmd \cup rm
        zero1 == [i \in QParamIdx |-> zero[i] \/ ParamElement(i) \in removed1]
        sel == SelectedFrom(zero1, 1)
        features == Features(unknown, sel)
        targets == Targets(unknown)
    IN  IF LstSqRaises(features, targets)
        THEN [raised |-> TRUE, kratios |-> kr]
        ELSE LET fit == Scatter(sel, LstSqSolve(features, targets))
                 clamped == {i \in QParamIdx : ~zero1[i] /\ RatNegative(fit[i])}
                 zero2 == [i \in QParamIdx |-> zero1[i] \/ i \in clamped]
                 cull == CullByVariance(fit)
                 kr2 == [i \in QParamIdx |->
                           IF ParamElement(i) \in cull \cup removed1
                           THEN Ratio(0, 1)
                           ELSE IF zero1[i] THEN kr[i]
                           ELSE IF i \in clamped THEN Ratio(0, 1)
                           ELSE fit[i]]
             IN  IF clamped /= {} \/ (cull \ removed1) /= {}
                 THEN RefitLoop(unknown, zero2, removed1, cull, kr2)
                 ELSE [raised |-> FALSE, kratios |-> kr2]

\* One KRatioSet kept by the fit and handed out by every call (mutation).
SharedKRatioSet(heap) == 1

\* linear_fit.py:97: result = KRatioSet() is a new object.
NewKRatioSet(heap) == Len(heap) + 1

\* The heap after the object ref has been filled with content.
Store(heap, ref, content) ==
    IF ref > Len(heap) THEN Append(heap, content)
    ELSE [heap EXCEPT ![ref] = content]

RefitInit ==
    /\ q_standards = EmptyMap
    /\ q_references \in RefitReferences
    /\ q_scales = EmptyMap
    /\ q_unknown = EmptyMap
    /\ q_raw = EmptyMap
    /\ q_result = EmptyMap
    /\ q_pc = "fit"
    /\ r_kratio = [i \in QParamIdx |-> Ratio(0, 1)]
    /\ r_heap = <<>>
    /\ r_log = <<>>

\* fit.get_k_ratios(unknown)
Refit ==
    /\ q_pc = "fit"
    /\ Len(r_log) < MaxRefitCalls
    /\ \E unknown \in RefitUnknowns :
        LET fit == RefitLoop(unknown, [i \in QParamIdx |-> FALSE], {}, {},
                             ResetKRatios)
            ref == NewKRatioSet(r_heap)
        IN  /\ r_kratio' = fit.kratios
            /\ IF fit.raised
               THEN /\ r_heap' = r_heap
                    /\ r_log' = Append(r_log, [unknown |-> unknown, ref |-> 0,
                                               returned |-> EmptyMap])
               ELSE /\ r_heap' = Store(r_heap, ref, RawKRatioSet(fit.kratios))
                    /\ r_log' = Append(r_log,
                                       [unknown |-> unknown, ref |-> ref,
                                        returned |-> RawKRatioSet(fit.kratios)])
    /\ UNCHANGED nonRefitVars

RefitNext == Refit

\* No fit is called repeatedly.
RefitIdle ==
    /\ r_kratio = <<>>
    /\ r_heap = <<>>
    /\ r_log = <<>>

-----------------------------------------------------------------------------
(***************************************************************************)
(* The specifications.                                                     *)
(***************************************************************************)
InitFit ==
    /\ FitInit /\ IvIdle /\ RoiIdle /\ QuantIdle /\ FilterIdle /\ KRatioIdle
    /\ IntegralIdle /\ SupportIdle /\ AssignIdle /\ CullIdle /\ TopHatIdle
    /\ RefitIdle

SpecFit == InitFit /\ [][FitNext]_vars

InitInterval ==
    /\ IvInit /\ FitIdle /\ RoiIdle /\ QuantIdle /\ FilterIdle /\ KRatioIdle
    /\ IntegralIdle /\ SupportIdle /\ AssignIdle /\ CullIdle /\ TopHatIdle
    /\ RefitIdle

SpecInterval == InitInterval /\ [][IvNext]_vars

InitROI ==
    /\ RoiInit /\ FitIdle /\ IvIdle /\ QuantIdle /\ FilterIdle /\ KRatioIdle
    /\ IntegralIdle /\ SupportIdle /\ AssignIdle /\ CullIdle /\ TopHatIdle
    /\ RefitIdle

SpecROI == InitROI /\ [][RoiNext]_vars

InitROIMixed ==
    /\ RoiMixedInit /\ FitIdle /\ IvIdle /\ QuantIdle /\ FilterIdle
    /\ KRatioIdle /\ IntegralIdle /\ SupportIdle /\ AssignIdle /\ CullIdle /\ TopHatIdle
    /\ RefitIdle

SpecROIMixed == InitROIMixed /\ [][RoiNext]_vars

InitQuant ==
    /\ QInit /\ FitIdle /\ IvIdle /\ RoiIdle /\ FilterIdle /\ KRatioIdle
    /\ IntegralIdle /\ SupportIdle /\ AssignIdle /\ CullIdle /\ TopHatIdle
    /\ RefitIdle

SpecQuant == InitQuant /\ [][QuantNext]_vars

InitFilter ==
    /\ FilterInit /\ FitIdle /\ IvIdle /\ RoiIdle /\ QuantIdle /\ KRatioIdle
    /\ IntegralIdle /\ SupportIdle /\ AssignIdle /\ CullIdle /\ TopHatIdle
    /\ RefitIdle

SpecFilter == InitFilter /\ [][FilterNext]_vars

InitKRatio ==
    /\ KRatioInit /\ FitIdle /\ IvIdle /\ RoiIdle /\ QuantIdle /\ FilterIdle
    /\ IntegralIdle /\ SupportIdle /\ AssignIdle /\ CullIdle /\ TopHatIdle
    /\ RefitIdle

SpecKRatio == InitKRatio /\ [][KRatioNext]_vars

InitIntegral ==
    /\ IntegralInit /\ FitIdle /\ IvIdle /\ RoiIdle /\ QuantIdle
    /\ FilterIdle /\ KRatioIdle /\ SupportIdle /\ AssignIdle /\ CullIdle
    /\ TopHatIdle /\ RefitIdle

SpecIntegral == InitIntegral /\ [][IntegralNext]_vars

InitSupport ==
    /\ SupportInit /\ FitIdle /\ IvIdle /\ RoiIdle /\ QuantIdle /\ FilterIdle
    /\ KRatioIdle /\ IntegralIdle /\ AssignIdle /\ CullIdle /\ TopHatIdle
    /\ RefitIdle

SpecSupport == InitSupport /\ [][SupportNext]_vars

InitAssign ==
    /\ AssignInit /\ FitIdle /\ IvIdle /\ RoiIdle /\ QuantIdle /\ FilterIdle
    /\ KRatioIdle /\ IntegralIdle /\ SupportIdle /\ CullIdle /\ TopHatIdle
    /\ RefitIdle

SpecAssign == InitAssign /\ [][AssignNext]_vars

InitCull ==
    /\ CullInit /\ FitIdle /\ IvIdle /\ RoiIdle /\ QuantIdle /\ FilterIdle
    /\ KRatioIdle /\ IntegralIdle /\ SupportIdle /\ AssignIdle /\ TopHatIdle
    /\ RefitIdle

SpecCull == InitCull /\ [][CullNext]_vars

InitTopHat ==
    /\ TopHatInit /\ FitIdle /\ IvIdle /\ RoiIdle /\ QuantIdle /\ FilterIdle
    /\ KRatioIdle /\ IntegralIdle /\ SupportIdle /\ AssignIdle /\ CullIdle
    /\ RefitIdle

SpecTopHat == InitTopHat /\ [][TopHatNext]_vars

InitRefit ==
    /\ RefitInit /\ FitIdle /\ IvIdle /\ RoiIdle /\ FilterIdle
    /\ KRatioIdle /\ IntegralIdle /\ SupportIdle /\ AssignIdle /\ CullIdle
    /\ TopHatIdle

SpecRefit == InitRefit /\ [][RefitNext]_vars

-----------------------------------------------------------------------------
(***************************************************************************)
(* Claims about LinearFit.get_k_ratios (checked under SpecFit).            *)
(***************************************************************************)

\* The solve loop was entered at most N+1 times and is not entered again
\* after pass N+1.
AtMostNPlusOnePasses ==
    /\ passes <= NumFitParams + 1
    /\ pc = "loop" => passes <= NumFitParams

\* C1 as stated: for every culling strategy a get_k_ratios call on N
\* parameters makes at most N+1 passes of its solve loop.
C1_AtMostNPlusOnePassesAnyStrategy == AtMostNPlusOnePasses

\* C1 amended: with no culling strategy or a stateless one (a pure function
\* of the parameters and the fit vector) a get_k_ratios call on N parameters
\* makes at most N+1 passes of its solve loop.
C1_AtMostNPlusOnePasses ==
    culling_strategy \in {"none", "stateless"} => AtMostNPlusOnePasses

\* C1 witness: a call on two or more parameters that returned after exactly
\* N+1 passes.
C1_Witness ==
    /\ pc = "done"
    /\ culling_strategy = "stateless"
    /\ NumFitParams >= 2
    /\ passes = NumFitParams + 1

\* The entries of a returned KRatioSet: one per parameter, none negative,
\* zero for every masked parameter.
ReturnedSetWellFormed ==
    /\ DOMAIN result = ParamIdx
    /\ \A i \in ParamIdx :
         /\ result[i] >= 0
         /\ (zero_fit_params[i] \/ parameters[i] \in removed \cup remove)
               => result[i] = 0

\* C2: every get_k_ratios call returns a KRatioSet (it never raises, also
\* when no active parameter is left for a pass) that has an entry for every
\* parameter, no negative value, and 0 for every clamped or culled parameter.
C2_AlwaysReturnsWellFormedSet ==
    /\ pc /= "raised"
    /\ pc = "done" => ReturnedSetWellFormed

\* The part of C2 that the code keeps: a KRatioSet that is returned is
\* well formed.
C2_ReturnedSetIsWellFormed == pc = "done" => ReturnedSetWellFormed

\* The call is between its first pass and its return.
InCall == pc \in {"loop", "ret"}

\* One step of a call keeps every mask: masked parameters stay masked, at
\* k-ratio 0 and unselected; the removed and flagged sets do not shrink.
MaskingKept ==
    /\ \A i \in ParamIdx :
         zero_fit_params[i] =>
            /\ zero_fit_params'[i]
            /\ kratio'[i] = 0
            /\ i \notin selected'
    /\ \A i \in ParamIdx :
         parameters[i] \in remove \cup removed =>
            /\ kratio'[i] = 0
            /\ i \notin selected'
    /\ removed \subseteq removed'
    /\ (remove \cup removed) \subseteq (remove' \cup removed')

\* C3: within one call masking is permanent: a masked parameter stays masked,
\* keeps k-ratio 0 and is not selected by any later pass; a parameter whose
\* element was flagged is not selected by any later pass and has k-ratio 0;
\* the removed set and the flagged-or-removed set never shrink.
C3_MaskingPermanent == [][InCall => MaskingKept]_vars

\* C3 witness: a parameter was masked, a later pass solved the remaining
\* parameter, and the masked one is still masked with k-ratio 0.
C3_Witness ==
    /\ passes >= 2
    /\ \E i \in ParamIdx, j \in ParamIdx :
         /\ zero_fit_params[i] /\ kratio[i] = 0 /\ i \notin selected
         /\ j \in selected /\ kratio[j] > 0

-----------------------------------------------------------------------------
(***************************************************************************)
(* Claims about Interval (checked under SpecInterval).                     *)
(***************************************************************************)

\* The element-wise OR of extract(length, [i]) over the intervals i of a list.
UnionOfExtracts(length, list) ==
    [c \in 0..(length - 1) |->
        \E k \in 1..Len(list) : Extract(length, <<list[k]>>)[c]]

\* C7: for any list I of integer intervals and any permutation P of I,
\* extract(len, sortmerge(P)) is the element-wise OR of extract(len, [i])
\* over the intervals i of I.
C7_ExtractOfSortMergeIsUnion ==
    iv_pc = "extracted" => iv_mask = UnionOfExtracts(iv_length, iv_input)

\* C7 on lists whose bounds are all non-negative (reversed bounds allowed):
\* there the mask of the merged list is the union of the single masks.
C7_HoldsForNonNegativeBounds ==
    (/\ iv_pc = "extracted"
     /\ \A k \in 1..Len(iv_input) :
           iv_input[k].lower >= 0 /\ iv_input[k].upper >= 0)
        => iv_mask = UnionOfExtracts(iv_length, iv_input)

-----------------------------------------------------------------------------
(***************************************************************************)
(* Claims about RegionOfInterest and RegionOfInterestSet (SpecROI).        *)
(***************************************************************************)
\* Two closed energy windows share an energy.
WindowsOverlap(a, b) == Max2(a.low, b.low) <= Min2(a.high, b.high)

\* C8: after every add_roi / add_xrt / add_xrt_set call on a
\* RegionOfInterestSet, in whatever order the insertions are made, no two
\* distinct ROIs of the set have closed energy windows that share an energy.
C8_SetPairwiseNonOverlapping ==
    \A a, b \in rois : a /= b => ~WindowsOverlap(a, b)

\* C9: across any sequence of add_xrt and add_roi calls on a
\* RegionOfInterest (the add_roi calls RegionOfInterestSet.add_roi makes on
\* the inserted ROI included), low_energy never increases, high_energy never
\* decreases and the transition set never loses a member.
RoiGrew ==
    /\ roi'.low <= roi.low
    /\ roi'.high >= roi.high
    /\ roi.xrts \subseteq roi'.xrts

RoiCallMade == roi_op' \in {"add_xrt", "add_roi", "set_add_roi"}

C9_RoiGrowsMonotonically == [][RoiCallMade => RoiGrew]_vars

C9_Witness ==
    /\ roi_op = "add_roi"
    /\ roi_calls >= 3
    /\ Cardinality(roi.xrts) >= 3
    /\ roi.low < roi.high

\* C10: a RegionOfInterest that holds at least one transition has
\* low_energy <= high_energy after any sequence of add_xrt and add_roi calls
\* (widths and extras being non-negative); without a line-shape model an ROI
\* holding a single transition has low_energy = high_energy = its energy.
WellFormedROI(r) ==
    /\ r.xrts /= {} => r.low <= r.high
    /\ (roi_model = "none" /\ Cardinality(r.xrts) = 1) =>
            \A xrt \in r.xrts : r.low = xrt.energy /\ r.high = xrt.energy

C10_LowNotAboveHigh == \A r \in rois \cup {roi} : WellFormedROI(r)

C10_Witness ==
    \/ /\ roi_model = "none"
       /\ roi_op = "init"
       /\ Cardinality(roi.xrts) = 1
       /\ roi.low = roi.high
       /\ \E r \in rois : Cardinality(r.xrts) >= 2
    \/ /\ roi_model = "custom"
       /\ roi_op = "add_xrt"
       /\ Cardinality(roi.xrts) >= 2
       /\ roi.low < roi.high

-----------------------------------------------------------------------------
(***************************************************************************)
(* Claims about QuantifyUsingStandards.compute (SpecQuant).                *)
(***************************************************************************)
ComputeCalled == q_pc \in {"done", "raised"}

\* Every standard has ROIs and every ROI got a reference.
AllReferenced ==
    /\ ReferencedRois = AllStandardRois
    /\ \A el \in MeasuredElements : RoiSet(el) /= {}

One == Ratio(1, 1)

\* C5: compute applied to a standard's own data (for QuantifyModel its model
\* intensities) returns a k-ratio of 1.0 for the ROIs of the standard's
\* element, for any number of ROIs and transitions and any iteration order
\* of the ROI set.
C5_OwnDataGivesUnity ==
    \A el \in MeasuredElements :
        (ComputeCalled /\ AllReferenced /\ q_unknown = q_standards[el]) =>
            /\ q_pc = "done"
            /\ \A region \in RoiSet(el) : RatEq(q_result[{region}], One)

-----------------------------------------------------------------------------
(***************************************************************************)
(* Claims about FilterFit (checked under SpecFilter).                      *)
(***************************************************************************)
FilterCallOver == f_pc \in {"ctor_raised", "raised", "done"}

\* The spectrum of 150 channels with exactly 100 counts at channel 17 is
\* the unknown and the first reference, whose ROI holds channel 17.
IdenticalReference ==
    /\ f_unknown = {17}
    /\ f_references /= <<>>
    /\ f_references[1].peaks = {17}
    /\ ChannelFromEnergy(f_references[1].roi.low, f_zero_offset) <= 17
    /\ 17 <= ChannelFromEnergy(f_references[1].roi.high, f_zero_offset)

\* C4: on the 150-channel spectrum with exactly 100 counts at channel 17, a
\* FilterFit whose reference is built from the identical spectrum returns
\* from get_k_ratios with a k-ratio of 1 for that reference and of 0 for
\* every reference built from another spectrum.
C4_IdenticalReferenceGivesUnity ==
    (IdenticalReference /\ FilterCallOver) =>
        /\ f_pc = "done"
        /\ RatEq(f_result[1], One)
        /\ \A i \in 2..Len(f_references) :
               f_references[i].peaks /= {17} => RatEq(f_result[i], Ratio(0, 1))

-----------------------------------------------------------------------------
(***************************************************************************)
(* KRatioSet claims.                                                       *)
(***************************************************************************)
\* The transition sets a and b have a transition of one element in common.
SharesTransition(a, b) == a.element = b.element /\ a.lines \cap b.lines /= {}

\* C11: KRatioSet is an associative map under any sequence of add and remove
\* calls: find of a stored key returns the value of its most recent add not
\* followed by a remove, every stored key has exactly one entry, and remove
\* of an absent key changes nothing.
C11_AssociativeMap ==
    /\ (k_op.name = "find" /\ k_op.key \in DOMAIN k_shadow)
           => k_op.out = Value(k_shadow[k_op.key])
    /\ \A k \in DOMAIN k_shadow :
           Cardinality({i \in 1..Len(k_data) : k_data[i].key = k}) = 1
    /\ (k_op.name = "remove" /\ k_op.key \notin k_op.stored)
           => k_data = k_op.before

\* C12: find returns None, without raising, for every query transition set
\* that is not a stored key and shares no transition with a stored key.
C12_FindDisjointReturnsNone ==
    (/\ k_op.name = "find"
     /\ k_op.key \notin DOMAIN k_shadow
     /\ \A k \in DOMAIN k_shadow : ~SharesTransition(k_op.key, k))
        => k_op.out = NoneValue

\* C13: kratio_from_xrt_set never raises and returns a number >= 0: 0.0 when
\* find yields None or a negative value, the found value otherwise.
C13_ClampedLookupNeverRaises ==
    k_op.name = "kratio_from_xrt_set" =>
        LET found == KRatioSetFind(k_data, k_op.key)
        IN  /\ k_op.out.kind = "value"
            /\ k_op.out.value >= 0
            /\ (found.kind = "none" \/ (found.kind = "value" /\ found.value < 0))
                   => k_op.out = Value(0)
            /\ (found.kind = "value" /\ found.value >= 0) => k_op.out = found

-----------------------------------------------------------------------------
(***************************************************************************)
(* background_corrected_integral claims.                                   *)
(***************************************************************************)
\* The sum of the counts of the channels of the window.
RawChannelSum == PeakCounts * Cardinality(b_peaks)

\* C14: over a spectrum whose counts are zero outside the window,
\* background_corrected_integral returns normally and the integral it
\* returns equals the raw channel sum of the window within the reported
\* uncertainty.
C14_FlatBackgroundIntegralIsRawSum ==
    b_pc \in {"done", "raised"} =>
        /\ b_pc = "done"
        /\ LET diff == RatMinus(b_result.net, Ratio(RawChannelSum, 1))
           IN  ~RatLess(b_result.variance, RatMul(diff, diff))

-----------------------------------------------------------------------------
(***************************************************************************)
(* LinearFit claims on the Parameter objects and on the loop.              *)
(***************************************************************************)
\* C15: every get_k_ratios invocation works on a Parameter list created for
\* that invocation: no Parameter object a call works on was used by an
\* earlier get_k_ratios call on the same LinearFit.
C15_ParametersFreshPerCall ==
    pc \in {"loop", "ret", "done", "raised"} =>
        {parameter_ids[i] : i \in ParamIdx} \cap prior_ids = {}

\* A step that completes one pass of the solve loop.
PassFinished == passes' = passes + 1 /\ pc' \in {"loop", "ret"}

\* The pass clamped a negative k-ratio of the solve.
ClampedInPass == \E i \in selected' : fit_params'[i] < 0

\* The culling strategy flagged an element that was not flagged before.
NewlyFlagged == remove' \ removed' /= {}

\* C18: get_k_ratios starts another pass exactly when the pass just finished
\* clamped at least one negative k-ratio or the culling strategy flagged an
\* element not flagged before; at return the k-ratio of every unmasked
\* parameter is the value of the last least-squares solve, which was built
\* from exactly the parameters that are unmasked at return.
C18_RepeatExactlyOnNewRemovals ==
    /\ [][PassFinished =>
              /\ repeat' = (ClampedInPass \/ NewlyFlagged)
              /\ (pc' = "loop") = repeat']_vars
    /\ [](pc \in {"ret", "done"} =>
              /\ selected = {i \in ParamIdx : ~zero_fit_params[i]}
              /\ \A i \in ParamIdx :
                     ~zero_fit_params[i] => kratio[i] = fit_params[i])

\* A call that returned after a repeated pass, with a masked parameter and
\* an unmasked one that holds a positive k-ratio.
C18_Witness ==
    /\ pc = "done"
    /\ passes >= 2
    /\ \E i \in ParamIdx : zero_fit_params[i]
    /\ \E i \in ParamIdx : ~zero_fit_params[i] /\ kratio[i] > 0

-----------------------------------------------------------------------------
(***************************************************************************)
(* Interval construction claims.                                           *)
(***************************************************************************)
\* C16: Interval(lower, upper) with lower > upper is rejected or normalized
\* at construction, so that no Interval with lower > upper ever reaches
\* sortmerge, overlaps or extract.
C16_NoReversedIntervalReachesSortMerge ==
    iv_pc \in {"merged", "extracted"} =>
        /\ \A i \in 1..Len(iv_input) : iv_input[i].lower <= iv_input[i].upper
        /\ \A i \in 1..Len(iv_list) : iv_list[i].lower <= iv_list[i].upper

-----------------------------------------------------------------------------
(***************************************************************************)
(* NonZeroInterval claims.                                                 *)
(***************************************************************************)
\* The indexes of the non-zero samples of the array.
NonZeroSamples == {c \in DOMAIN s_data : s_data[c] /= 0}

\* C17: NonZeroInterval(data) has lower = index of the first non-zero sample
\* and upper = index of the last non-zero sample; for data that is entirely
\* zero lower = upper = 0 and no error is raised.
C17_SupportOfData ==
    s_pc \in {"done", "raised"} =>
        /\ s_pc = "done"
        /\ IF NonZeroSamples = {}
           THEN s_interval = Interval(0, 0)
           ELSE /\ s_interval.lower \in NonZeroSamples
                /\ s_interval.upper \in NonZeroSamples
                /\ \A c \in NonZeroSamples :
                       s_interval.lower <= c /\ c <= s_interval.upper

-----------------------------------------------------------------------------
(***************************************************************************)
(* assign_reference claims.                                                *)
(***************************************************************************)
\* The standard keyed by the ROI's first element is suitable for the ROI.
OwnStandardSuitable ==
    \E i \in 1..Len(a_standards) :
        a_standards[i].element = a_element /\ a_standards[i].answers.suitable

\* The standards that contain the element, are suitable and have a
\* positive nominal signal-to-noise.
Candidates ==
    {i \in 1..Len(a_standards) :
        /\ a_standards[i].answers.contains
        /\ a_standards[i].answers.suitable
        /\ a_standards[i].answers.sn > 0}

\* The candidates of the greatest signal-to-noise.
BestCandidates ==
    {i \in Candidates :
        \A j \in Candidates :
            a_standards[j].answers.sn <= a_standards[i].answers.sn}

\* C19: assign_reference(roi) returns the user override when one exists;
\* otherwise a reference made from the standard keyed by the ROI's first
\* element when that standard is suitable; otherwise a reference made from
\* the first of the standards that contain the element, are suitable and
\* have the greatest signal-to-noise, which must be positive; and None when
\* there is no such standard.
C19_AssignReferenceOrder ==
    a_pc = "done" =>
        IF a_user THEN a_result = UserReference
        ELSE IF OwnStandardSuitable
             THEN a_result = [kind |-> "standard", standard |-> a_element]
        ELSE IF BestCandidates = {} THEN a_result = NoReference
        ELSE \E i \in BestCandidates :
                 /\ \A j \in BestCandidates : i <= j
                 /\ a_result = [kind |-> "standard",
                                standard |-> a_standards[i].element]

\* Two standards tie on the greatest signal-to-noise and the first is taken,
\* after the ROI's own standard was found unsuitable.
C19_Witness ==
    /\ a_pc = "done"
    /\ ~a_user
    /\ ~OwnStandardSuitable
    /\ \E i \in 1..Len(a_standards) : a_standards[i].element = a_element
    /\ Cardinality(BestCandidates) = 2
    /\ a_result.kind = "standard"

-----------------------------------------------------------------------------
(***************************************************************************)
(* CullByVariance claims.                                                  *)
(***************************************************************************)
\* The parameters of an element.
ParametersOf(element) ==
    {i \in 1..Len(c_parameters) : c_parameters[i] = element}

RECURSIVE NumeratorSum(_)
\* The sum of the (integer) fit entries of a set of parameters.
NumeratorSum(indexes) ==
    IF indexes = {} THEN 0
    ELSE LET i == CHOOSE x \in indexes : TRUE
         IN  c_fit_result[i].num + NumeratorSum(indexes \ {i})

\* The mean of the fit entries of the element is a number below zero.
MeanStrictlyNegative(element) ==
    /\ \A i \in ParametersOf(element) : ~IsNaN(c_fit_result[i])
    /\ NumeratorSum(ParametersOf(element)) < 0

-----------------------------------------------------------------------------
(***************************************************************************)
(* ModelFit.features_and_targets claims (checked under SpecQuant).         *)
(***************************************************************************)
\* The parameters handed to features_and_targets in the first pass of
\* get_k_ratios: all of them.
AllSelected == SelectedFrom([i \in QParamIdx |-> FALSE], 1)

\* C21: features_and_targets returns a matrix with one row per transition of
\* the unknown, in the order of the target vector, and one column per
\* selected parameter, holding 0.0 where the parameter has no intensity for
\* the transition; the system features . k = targets is well formed for any
\* number of selected parameters and of unknown transitions.
C21_FeaturesOneRowPerTransition ==
    q_pc \in {"done", "raised"} =>
        LET features == Features(q_unknown, AllSelected)
            targets == Targets(q_unknown)
            keys == DictKeys(q_unknown)
        IN  /\ Len(features) = Len(targets)
            /\ \A t \in 1..Len(features) :
                   /\ Len(features[t]) = Len(AllSelected)
                   /\ \A j \in 1..Len(AllSelected) :
                          LET p == ParamIntensities(AllSelected[j])
                          IN  features[t][j] =
                                  IF keys[t] \in DOMAIN p THEN p[keys[t]] ELSE 0
            /\ AllSelected /= <<>> => ~LstSqRaises(features, targets)

-----------------------------------------------------------------------------
(***************************************************************************)
(* FilterFit.features_and_targets claims (checked under SpecFilter).       *)
(***************************************************************************)
\* The channel mask idx of features_and_targets in the first pass of
\* get_k_ratios, where every parameter is selected.
FirstPassMask ==
    Extract(NChannels,
            SortMerge([k \in 1..Len(f_parameters) |->
                          f_parameters[k].non_zero_interval]))

\* Channel c lies in the support of some parameter, last non-zero channel
\* included.
InSomeSupport(c) ==
    \E k \in 1..Len(f_parameters) :
        /\ f_parameters[k].non_zero_interval.lower <= c
        /\ c <= f_parameters[k].non_zero_interval.upper

\* C22: the boolean channel mask of features_and_targets is exactly the
\* union of the selected references' non-zero support intervals, each from
\* the first to the last non-zero sample inclusive, and false elsewhere.
C22_MaskIsUnionOfSupports ==
    (f_pc \in {"built", "done", "raised"} /\ f_parameters /= <<>>) =>
        \A c \in Channels : FirstPassMask[c] <=> InSomeSupport(c)

-----------------------------------------------------------------------------
(***************************************************************************)
(* KRatioSet.find, fuzzy matching (checked under SpecKRatio).              *)
(***************************************************************************)
\* The entries of data that hold the heaviest transition of the query: sets
\* of the query's element with that line.
Considered(data, query) ==
    {i \in 1..Len(data) :
        /\ data[i].key.element = query.element
        /\ WeightiestTransition(query) \in data[i].key.lines}

\* The considered entries whose similarity to the query exceeds 0.8.
AboveThreshold(data, query) ==
    {i \in Considered(data, query) :
        LET s == Similarity(query, data[i].key)
        IN  s.total > 0 /\ 10 * s.score > 8 * s.total}

\* The earliest of the entries above the threshold of maximal similarity.
BestMatch(data, query) ==
    LET above == AboveThreshold(data, query)
        s(i) == Similarity(query, data[i].key)
        best == {i \in above :
                    \A j \in above :
                        s(j).score * s(i).total <= s(i).score * s(j).total}
    IN  CHOOSE i \in best : \A j \in best : i <= j

\* C23: when no entry has the query's transitions as its key, find
\* considers only the stored entries that contain the query's heaviest
\* transition and returns the value of the earliest entry of maximal
\* similarity among them, provided that similarity is strictly above 0.8;
\* it returns None when no considered entry exceeds 0.8.
C23_FindReturnsBestSimilarEntry ==
    (/\ k_op.name = "find"
     /\ k_op.key.lines /= {}
     /\ KeyIndex(k_op.before, k_op.key) = 0)
        => IF AboveThreshold(k_op.before, k_op.key) = {}
           THEN k_op.out = NoneValue
           ELSE k_op.out =
                    Value(k_op.before[BestMatch(k_op.before, k_op.key)].value)

-----------------------------------------------------------------------------
(***************************************************************************)
(* RegionOfInterest.intersects (checked under SpecROI).                    *)
(***************************************************************************)
\* The RegionOfInterest objects that exist: the caller's and the set's.
LiveRois == rois \cup (IF roi_state = "none" THEN {} ELSE {roi})

\* A boundary of either ROI lies inside the closed window of the other.
BoundaryInsideOther(a, b) ==
    \/ (b.low <= a.low /\ a.low <= b.high)
    \/ (b.low <= a.high /\ a.high <= b.high)
    \/ (a.low <= b.low /\ b.low <= a.high)
    \/ (a.low <= b.high /\ b.high <= a.high)

\* C24: a.intersects(b) is true exactly when a boundary of either of the
\* two ROIs lies inside the closed window of the other; it is symmetric,
\* and true when one ROI lies strictly inside the other.
C24_IntersectsIsSymmetricOverlap ==
    \A a, b \in LiveRois :
        /\ Intersects(a, b) <=> BoundaryInsideOther(a, b)
        /\ Intersects(a, b) <=> Intersects(b, a)
        /\ (b.low < a.low /\ a.low <= a.high /\ a.high < b.high)
               => Intersects(a, b)

-----------------------------------------------------------------------------
(***************************************************************************)
(* Interval.sortmerge on intervals with lower <= upper (SpecInterval).     *)
(***************************************************************************)
\* Every interval handed to sortmerge has lower <= upper.
ProperInput ==
    \A k \in 1..Len(iv_input) : iv_input[k].lower <= iv_input[k].upper

\* C25: for a list of intervals with lower <= upper, sortmerge returns
\* intervals sorted ascending by lower bound of which no two overlap under
\* the closed test (intervals sharing only an endpoint are merged), and
\* sortmerge of its own result returns the same intervals.
C25_SortMergeSortedDisjointIdempotent ==
    (iv_pc \in {"merged", "extracted"} /\ ProperInput) =>
        /\ \A i, j \in 1..Len(iv_list) :
               i < j => iv_list[i].lower <= iv_list[j].lower
        /\ \A i, j \in 1..Len(iv_list) :
               i /= j =>
                   ~(/\ iv_list[i].lower <= iv_list[j].upper
                     /\ iv_list[j].lower <= iv_list[i].upper)
        /\ SortMerge(iv_list) = iv_list

\* Intervals that share only an endpoint went in and one interval came out.
C25_Witness ==
    /\ iv_pc = "merged"
    /\ ProperInput
    /\ Len(iv_input) = MaxIntervals
    /\ \A k \in 1..(Len(iv_input) - 1) :
           iv_input[k].lower < iv_input[k].upper
               /\ iv_input[k].upper = iv_input[k + 1].lower
    /\ Len(iv_list) = 1

-----------------------------------------------------------------------------
(***************************************************************************)
(* TopHatFilter claims (checked under SpecTopHat).                         *)
(***************************************************************************)
\* n: the number of negative entries the kernel starts with.
FlankLength ==
    Cardinality({j \in 1..Len(t_filter) :
                    \A i \in 1..j : t_filter[i] < 0})

\* m: half of what the two flanks and the centre channel leave.
CentreHalfLength == (Len(t_filter) - (2 * FlankLength) - 1) \div 2

\* C26: the kernel has length 2n + 2m + 1, is -1 on its first n and its last
\* n positions and the constant k = 2n / (2m + 1) on its 2m + 1 central
\* positions, so that its entries sum to zero (entries times 2m + 1 here).
C26_KernelIsZeroSumTopHat ==
    t_pc = "built" =>
        LET n == FlankLength
            m == CentreHalfLength
            len == Len(t_filter)
        IN  /\ len = (2 * n) + (2 * m) + 1
            /\ \A j \in 1..len :
                   t_filter[j] =
                       IF j <= n \/ j > n + (2 * m) + 1
                       THEN 0 - ((2 * m) + 1)
                       ELSE 2 * n
            /\ SeqSum(t_filter) = 0

\* A kernel wider than the smallest one has been built.
C26_Witness ==
    /\ t_pc = "built"
    /\ FlankLength > 2
    /\ Len(t_filter) = (4 * FlankLength) + 1

\* C27: the half-width is m = n = max((round(width / channel_width) - 1)
\* div 2, 2), and (2m + 1) * channel_width differs from width by less than
\* 2 * channel_width whenever width >= 5 * channel_width.
C27_HalfWidthMatchesFilterWidth ==
    t_pc = "built" =>
        LET m == CentreHalfLength
            rounded == RoundHalfEven(t_width, t_channel_width)
            span == ((2 * m) + 1) * t_channel_width
        IN  /\ FlankLength = m
            /\ m = Max2((rounded - 1) \div 2, 2)
            /\ t_width >= 5 * t_channel_width
                   => /\ span - t_width < 2 * t_channel_width
                      /\ t_width - span < 2 * t_channel_width

-----------------------------------------------------------------------------
-----------------------------------------------------------------------------
(***************************************************************************)
(* FilterFit.fill_data claims (checked under SpecFilter).                  *)
(***************************************************************************)
\* The features and targets of the first pass of get_k_ratios.
FirstPassSystem ==
    FeaturesAndTargets(f_unknown, f_zero_offset, TopHatFilter(f_width),
                       f_parameters)

\* C29: every finite filtered value of a selected reference, and of the
\* unknown, at a masked channel appears unchanged in the feature matrix,
\* respectively the target vector: fill_data alters only undefined entries.
C29_FillDataKeepsFiniteValues ==
    (f_pc \in {"built", "done", "raised"} /\ f_parameters /= <<>>) =>
        /\ \A k \in 1..Len(f_parameters) :
               FirstPassSystem.features[k]
                   = Masked(f_parameters[k].data, FirstPassMask)
        /\ FirstPassSystem.targets
               = Masked(FilteredSpectrum(SpectrumData(f_unknown), f_zero_offset,
                                         TopHatFilter(f_width), FALSE,
                                         Interval(0, 0)).data,
                        FirstPassMask)

-----------------------------------------------------------------------------
(***************************************************************************)
(* RegionOfInterestSet.add_roi over the transitions of two elements        *)
(* (checked under SpecROIMixed).                                           *)
(***************************************************************************)
\* The transitions of all ROIs of a set.
AllTransitions(set) == UNION {r.xrts : r \in set}

\* Some ROI of the set contains the energy.
SetContains(set, energy) == \E r \in set : Contains(r, energy)

\* roi_set.add_roi(roi) kept every transition and every energy.
NothingLost ==
    /\ AllTransitions(rois') = AllTransitions(rois) \cup roi.xrts
    /\ \A energy \in (0 - Infinity)..Infinity :
           SetContains(rois \cup {roi}, energy) => SetContains(rois', energy)

\* C30: RegionOfInterestSet.add_roi never loses information: afterwards the
\* union of the transitions of all ROIs of the set is that union before the
\* call plus the transitions of the new ROI, and every energy contained in
\* some ROI of the set before the call, or in the new ROI, is contained in
\* some ROI of the set.
C30_AddRoiLosesNothing == [][roi_op' = "set_add_roi" => NothingLost]_vars

=============================================================================
